---- MODULE Spec2Model ----
(***************************************************************************)
(* mcp_attack: the scan orchestrator (scanner.py, __main__.py), the        *)
(* enumerator (core/enumerator.py), the check catalog (checks/*.py) and    *)
(* the result model (core/models.py).                                      *)
(*                                                                         *)
(* core/session.py (detect_transport, MCPSession) and checks/__init__.py   *)
(* (run_all_checks) are not part of the source tree at hand; they are      *)
(* modelled from spec.md sections 4.1, 4.3 and 4.4.                        *)
(***************************************************************************)
EXTENDS Naturals, Integers, Sequences, FiniteSets, TLC

\* ------------------------------------------------------------------ bounds
\* The largest number of target URLs of a run (args.targets, de-duplicated).
MaxUrls == 3
\* The size of the worker pool (args.workers).
Workers == 2

VARIABLES
    urls,      \* the target list main() got from build_url_list: URL ids 1..n
    server,    \* environment: how the server behind each URL behaves
    mainPc,    \* where main() is
    lock,      \* run_parallel's lock: 0 when free, else the worker holding it
    results,   \* run_parallel's shared list (references to TargetResults)
    wpc,       \* per URL: where its worker / its scan_target is
    snapshot,  \* per URL: the list(results) copy handed to scan_target
    result,    \* per URL: its TargetResult
    session,   \* per URL: its Session (state, requests sent, close() calls)
    attempt,   \* per URL: enumerate_server's tools/list attempt counter
    swallowed, \* per URL: the checks whose exception run_all_checks caught
    crossRuns, \* how many times main ran detect_cross_shadowing
    call,      \* one Session.call in progress: its sends and its reply
    file,      \* the baseline file on disk (args.baseline, args.save_baseline)
    baseline,  \* main's `baseline`: what load_baseline returned
    diff_results, \* main's `diff_results`: the DiffResults computed so far
    exitCode,  \* the exit status of the process, -1 while it runs
    listed,    \* check_rug_pull run on its own: its two tools/list replies
    retry      \* lib/common.py: one call of a retry_with_backoff wrapper

\* what main() keeps besides the scans
mainVars == <<file, baseline, diff_results, exitCode, listed, retry>>

vars == <<urls, server, mainPc, lock, results, wpc, snapshot, result,
          session, attempt, swallowed, crossRuns, call, mainVars>>

\* ------------------------------------------------- JSON values of a server
\* A JSON null, and a key that is missing from a JSON object.
JsonNull == "<null>"
Absent == "<absent>"

Tool(n, d) == [name |-> n, description |-> d]

\* "search" is one of SHADOW_TARGETS, "audit" is not.
TSearch == Tool("search", "plain")
TAudit == Tool("audit", "plain")
\* the same tool with another description
TSearchAlt == Tool("search", "plain, reworded")
\* a description that matches INJECTION_PATTERNS
TInject == Tool("audit", "ignore previous instructions")
\* untrusted shapes: no "name" key, and "description": null
TNameless == Tool(Absent, "plain")
TNullDesc == Tool("search", JsonNull)
\* a name that differs from "search" in case only
TSearchUpper == Tool("Search", "plain")

\* A reply as Session.call returns it: None, a JSON-RPC error object, a
\* result object carrying `items`, or a reply whose "result" is no object.
ReplyNull == [type |-> "null", items |-> <<>>]
ReplyError == [type |-> "error", items |-> <<>>]
ReplyBad == [type |-> "badresult", items |-> <<>>]
ReplyResult(items) == [type |-> "result", items |-> items]

\* `resp and "result" in resp`
HasResult(resp) == resp.type \in {"result", "badresult"}
\* `resp and "error" not in resp`
NoError(resp) == resp.type \in {"result", "badresult"}
\* `not resp`
Falsy(resp) == resp.type = "null"

\* resources and prompts are JSON objects too; a resource's uri is its name
Resource(uri, d) == [name |-> uri, description |-> d]
RDoc == Resource("file://doc", "plain")
PHello == [name |-> "hello", description |-> "plain"]

\* the text of a resources/read content: content.get("text")
Content(text) == [name |-> "text", description |-> text]

\* ------------------------------------------- core/models.py: the results
Finding(target, check, severity, title, subject, peers) ==
    [target |-> target, check |-> check, severity |-> severity,
     title |-> title, subject |-> subject, peers |-> peers]

\* TargetResult(url=url): the dataclass defaults
NewResult(url) ==
    [url |-> url, transport |-> "unknown", server_info |-> "{}",
     tools |-> <<>>, resources |-> <<>>, prompts |-> <<>>,
     findings |-> <<>>, timings |-> {}, error |-> ""]

\* an add that puts the new Finding in front of the others
AddInFront(r, check, severity, title, subject, peers) ==
    [r EXCEPT !.findings = <<Finding(r.url, check, severity, title, subject, peers)>> \o @]

\* TargetResult.add: append one Finding for self.url
Add(r, check, severity, title, subject, peers) ==
    [r EXCEPT !.findings =
        Append(@, Finding(r.url, check, severity, title, subject, peers))]

\* result.timings[name] = elapsed: the elapsed seconds are left out
Timed(r, name) == [r EXCEPT !.timings = @ \cup {name}]

\* The outcome of a check body: the result as it was left, and whether the
\* body ended by raising.
Ok(r) == [res |-> r, raised |-> FALSE]
Raise(r) == [res |-> r, raised |-> TRUE]

\* core/constants.py: SEVERITY_WEIGHTS
SEVERITY_WEIGHTS == [s \in {"CRITICAL", "HIGH", "MEDIUM", "LOW"} |->
                        CASE s = "CRITICAL" -> 10 [] s = "HIGH" -> 7
                          [] s = "MEDIUM" -> 4 [] s = "LOW" -> 1]

\* SEVERITY_WEIGHTS.get(severity, 0)
WeightOf(severity) ==
    IF severity \in DOMAIN SEVERITY_WEIGHTS THEN SEVERITY_WEIGHTS[severity] ELSE 0

RECURSIVE SumWeights(_, _)
SumWeights(findings, n) ==
    IF n = 0 THEN 0 ELSE SumWeights(findings, n - 1) + WeightOf(findings[n].severity)

\* a score that counts a severity it does not know as a LOW one
risk_scoreUnknownAsLow(r) ==
    SumWeights(r.findings, Len(r.findings))
        + Cardinality({k \in 1..Len(r.findings) :
                          r.findings[k].severity \notin DOMAIN SEVERITY_WEIGHTS})

\* TargetResult.risk_score
risk_score(r) == SumWeights(r.findings, Len(r.findings))

\* time_check(name, result): __exit__ records the timing whether the body
\* returned or raised, and returns None, so the exception goes on.
TimeCheck(name, out) == [out EXCEPT !.res = Timed(@, name)]

\* ------------------------------------------------- core/session.py (spec)
NewSession == [state |-> "UNINITIALIZED", sse_url |-> "", wire |-> <<>>, closes |-> 0]

\* detect_transport found an SSE or an HTTP POST endpoint
SessConnected(s, transport) ==
    [s EXCEPT !.state = "CONNECTED",
              !.sse_url = IF transport = "SSE" THEN "/sse" ELSE ""]

\* Session.call(method): one JSON-RPC request goes out on the session
SessCall(s, method) ==
    [s EXCEPT !.wire = Append(@, [kind |-> "call", method |-> method, state |-> s.state])]

\* Session.notify(method): fire and forget; the initialized notification
\* ends the handshake.
SessNotify(s, method) ==
    [s EXCEPT !.wire = Append(@, [kind |-> "notify", method |-> method, state |-> s.state]),
              !.state = IF s.state = "CONNECTED" /\ method = "notifications/initialized"
                        THEN "READY" ELSE @]

\* Session.close()
SessClose(s) == [s EXCEPT !.state = "CLOSED", !.closes = @ + 1]

\* `"SSE" if hasattr(session, "sse_url") and session.sse_url else "HTTP"`
TransportLabel(s) == IF s.sse_url # "" THEN "SSE" ELSE "HTTP"

\* --------------------------------------------- the servers (environment)
\* A server is down (no MCP endpoint), mute (an endpoint that never
\* answers), broken (answers initialize with a result that is no object),
\* honest (serves its tool list), or wild (may answer anything at any time).
Server(kind, tools) == [kind |-> kind, tools |-> tools]
WildServer == Server("wild", <<>>)
FleetServers ==
    {Server("down", <<>>), Server("mute", <<>>), Server("broken", <<>>),
     Server("honest", <<TSearch>>)}

\* the tool lists a wild server may serve
WildToolLists ==
    {<<>>, <<TSearch>>, <<TSearch, TSearch>>, <<TSearch, TAudit>>,
     <<TSearchAlt>>, <<TInject>>, <<TNameless>>, <<TNullDesc>>}

\* what detect_transport can find on a server
Transports(s) ==
    CASE s.kind = "down" -> {"none"}
      [] s.kind = "wild" -> {"none", "HTTP", "SSE"}
      [] OTHER -> {"HTTP"}

WildReplies(method) ==
    CASE method = "initialize" ->
            {ReplyNull, ReplyError, ReplyBad, ReplyResult(<<>>)}
      [] method = "tools/list" ->
            {ReplyNull, ReplyError, ReplyBad} \cup {ReplyResult(t) : t \in WildToolLists}
      [] method = "resources/list" ->
            {ReplyNull, ReplyError, ReplyBad, ReplyResult(<<>>), ReplyResult(<<RDoc>>)}
      [] method = "prompts/list" ->
            {ReplyNull, ReplyBad, ReplyResult(<<>>), ReplyResult(<<PHello>>)}
      [] method = "resources/read" ->
            {ReplyNull, ReplyError, ReplyResult(<<Content("plain")>>),
             ReplyResult(<<Content("ignore previous instructions")>>)}
      [] OTHER -> {ReplyNull, ReplyError, ReplyResult(<<>>)}

\* what Session.call(method) can return on a server
Replies(s, method) ==
    CASE s.kind = "wild" -> WildReplies(method)
      [] s.kind = "broken" /\ method = "initialize" -> {ReplyBad}
      [] s.kind = "honest" /\ method = "initialize" -> {ReplyResult(<<>>)}
      [] s.kind = "honest" /\ method = "tools/list" -> {ReplyResult(s.tools)}
      [] s.kind = "honest" /\ method \in {"resources/list", "prompts/list"} ->
            {ReplyResult(<<>>)}
      [] s.kind = "honest" -> {ReplyError}
      [] OTHER -> {ReplyNull}


\* ------------------------------------------------------ patterns/rules.py
\* The regular expression tables, by what they match among the texts above.
INJECTION_PATTERNS == {"ignore previous instructions"}
POISON_PATTERNS == {}
TOKEN_THEFT_PATTERNS == {}
CODE_EXEC_PATTERNS == {}
DANGEROUS_TOOL_PATTERNS == {}
RAC_PATTERNS == {}
SHADOW_TARGETS ==
    {"ls", "cat", "echo", "read", "write", "open", "close", "get", "set",
     "list", "search", "find", "help", "info", "status", "ping", "run",
     "execute", "create", "delete", "update", "fetch", "send", "post",
     "memory_read", "memory_write", "file_read", "file_write",
     "web_search", "browser", "calculator", "send_email", "send_message",
     "think", "plan", "act", "observe", "reflect"}
ATTACK_CHAIN_PATTERNS ==
    << <<"prompt_injection", "code_execution">>, <<"prompt_injection", "token_theft">>,
       <<"code_execution", "token_theft">>, <<"code_execution", "remote_access">>,
       <<"indirect_injection", "token_theft">>, <<"indirect_injection", "remote_access">>,
       <<"tool_poisoning", "token_theft">> >>

\* re.search(pat, text) for some pat of the table
PatternHit(table, text) == text \in table

\* tool.get("name", "") and tool.get("description", "")
NameOr(t) == IF t.name = Absent THEN "" ELSE t.name
DescOr(t) == IF t.description = Absent THEN "" ELSE t.description
\* tool.get("description"): None when the key is missing or null
DescGet(t) == IF t.description = Absent THEN JsonNull ELSE t.description

ToolNames(tools) == {tools[k].name : k \in 1..Len(tools)}
HasNameless(tools) == Absent \in ToolNames(tools)
\* str.lower() on the names of the model
Lower(n) == IF n = "Search" THEN "search" ELSE n
\* {t["name"].lower() for t in tools}
LowerNames(tools) == {Lower(tools[k].name) : k \in 1..Len(tools)}

\* ------------------------------------------------- checks/injection.py
\* _scan over the items from the k-th on: description, then name; a null
\* description makes re.search raise TypeError.
RECURSIVE ScanItems(_, _, _)
ScanItems(r, items, k) ==
    IF k > Len(items) THEN Ok(r)
    ELSE IF DescOr(items[k]) = JsonNull THEN Raise(r)
    ELSE LET r1 == IF PatternHit(INJECTION_PATTERNS, DescOr(items[k]))
                   THEN Add(r, "prompt_injection", "CRITICAL", "payload in description",
                            {NameOr(items[k])}, <<>>)
                   ELSE r
             r2 == IF PatternHit(INJECTION_PATTERNS, NameOr(items[k]))
                   THEN Add(r1, "prompt_injection", "CRITICAL", "payload in name",
                            {NameOr(items[k])}, <<>>)
                   ELSE r1
         IN  ScanItems(r2, items, k + 1)

check_prompt_injection(r) ==
    LET a == ScanItems(r, r.tools, 1)
        b == IF a.raised THEN a ELSE ScanItems(a.res, r.resources, 1)
        c == IF b.raised THEN b ELSE ScanItems(b.res, r.prompts, 1)
    IN  TimeCheck("prompt_injection", c)

\* The checks that build `name + " " + description` (or description.lower())
\* for every tool and search one pattern table in it; a null description
\* raises TypeError (AttributeError for .lower()).
RECURSIVE ScanCombined(_, _, _, _, _)
ScanCombined(r, check, table, severity, k) ==
    IF k > Len(r.tools) THEN Ok(r)
    ELSE IF DescOr(r.tools[k]) = JsonNull THEN Raise(r)
    ELSE LET hit == PatternHit(table, NameOr(r.tools[k]))
                    \/ PatternHit(table, DescOr(r.tools[k]))
             r1 == IF hit
                   THEN Add(r, check, severity, "pattern in tool", {NameOr(r.tools[k])}, <<>>)
                   ELSE r
         IN  ScanCombined(r1, check, table, severity, k + 1)

check_tool_poisoning(r) ==
    TimeCheck("tool_poisoning", ScanCombined(r, "tool_poisoning", POISON_PATTERNS, "CRITICAL", 1))

\* ------------------------------------------------ checks/permissions.py
check_excessive_permissions(r) ==
    TimeCheck("excessive_permissions",
              ScanCombined(r, "excessive_permissions", DANGEROUS_TOOL_PATTERNS, "HIGH", 1))

\* only inputSchema properties are read and the tools here declare none
check_schema_risks(r) == TimeCheck("schema_risks", Ok(r))

\* -------------------------------------- checks/theft.py, checks/execution.py
check_token_theft(r) ==
    TimeCheck("token_theft", ScanCombined(r, "token_theft", TOKEN_THEFT_PATTERNS, "CRITICAL", 1))

check_code_execution(r) ==
    TimeCheck("code_execution",
              ScanCombined(r, "code_execution", CODE_EXEC_PATTERNS, "CRITICAL", 1))

check_remote_access(r) ==
    TimeCheck("remote_access", ScanCombined(r, "remote_access", RAC_PATTERNS, "HIGH", 1))

\* ------------------------------------------------- checks/behavioral.py
\* {t["name"]: t for t in tools}: the last tool of a name wins
RECURSIVE LastNamed(_, _, _)
LastNamed(tools, n, k) ==
    IF tools[k].name = n THEN tools[k] ELSE LastNamed(tools, n, k - 1)

\* the loop over set(t1) & set(t2), from a set of names still to visit
RECURSIVE RugPullChanged(_, _, _, _)
RugPullChanged(r, t1, t2, names) ==
    IF names = {} THEN Ok(r)
    ELSE LET n == CHOOSE x \in names : TRUE
             d1 == DescGet(LastNamed(t1, n, Len(t1)))
             d2 == DescGet(LastNamed(t2, n, Len(t2)))
         IN  IF d1 = d2 THEN RugPullChanged(r, t1, t2, names \ {n})
             \* .get('description','')[:150] of a null description
             ELSE IF JsonNull \in {LastNamed(t1, n, Len(t1)).description,
                                   LastNamed(t2, n, Len(t2)).description}
                  THEN Raise(r)
             ELSE RugPullChanged(
                      Add(r, "rug_pull", "CRITICAL", "description changed", {n}, <<>>),
                      t1, t2, names \ {n})

\* the body of check_rug_pull given the two tools/list replies
RugPullBody(r, first, second) ==
    IF Falsy(first) \/ Falsy(second) THEN Ok(r)
    \* first.get("result", {}).get("tools", []) on a result that is no object
    ELSE IF first.type = "badresult" THEN Raise(r)
    ELSE IF HasNameless(first.items) THEN Raise(r)
    ELSE IF second.type = "badresult" THEN Raise(r)
    ELSE IF HasNameless(second.items) THEN Raise(r)
    ELSE LET n1 == ToolNames(first.items)
             n2 == ToolNames(second.items)
             r1 == IF n2 \ n1 # {}
                   THEN Add(r, "rug_pull", "HIGH", "appeared", n2 \ n1, <<>>) ELSE r
             r2 == IF n1 \ n2 # {}
                   THEN Add(r1, "rug_pull", "HIGH", "disappeared", n1 \ n2, <<>>) ELSE r1
         IN  RugPullChanged(r2, first.items, second.items, n1 \cap n2)

check_rug_pull(r, first, second) == TimeCheck("rug_pull", RugPullBody(r, first, second))

check_protocol_robustness(r, unknown, noparams) ==
    LET r1 == IF NoError(unknown)
              THEN Add(r, "protocol_robustness", "MEDIUM", "success for unknown method", {}, <<>>)
              ELSE r
        r2 == IF HasResult(noparams)
              THEN Add(r1, "protocol_robustness", "MEDIUM", "result for tools/call with no params",
                       {}, <<>>)
              ELSE r1
    IN  TimeCheck("protocol_robustness", Ok(r2))

\* checks/injection.py: one resources/read per declared resource; whatever
\* is raised inside the loop body is swallowed there.
RECURSIVE IndirectBody(_, _, _)
IndirectBody(r, reads, k) ==
    IF k > Len(r.resources) THEN Ok(r)
    ELSE LET resp == reads[k]
             text == IF resp.type = "result" /\ resp.items # <<>>
                     THEN resp.items[1].description ELSE ""
             r1 == IF PatternHit(INJECTION_PATTERNS \cup POISON_PATTERNS, text)
                   THEN Add(r, "indirect_injection", "CRITICAL", "injection in resource",
                            {NameOr(r.resources[k])}, <<>>)
                   ELSE r
         IN  IndirectBody(r1, reads, k + 1)

check_indirect_injection(r, reads) == TimeCheck("indirect_injection", IndirectBody(r, reads, 1))

\* ------------------------------------------------- checks/transport.py
\* three probes with their own HTTP client; each swallows its exceptions
check_sse_security(r, open, cors, post) ==
    LET r1 == IF open THEN Add(r, "sse_security", "HIGH", "stream without authentication", {}, <<>>)
              ELSE r
        r2 == IF cors THEN Add(r1, "sse_security", "HIGH", "CORS misconfiguration", {}, <<>>)
              ELSE r1
        r3 == IF post THEN Add(r2, "sse_security", "MEDIUM", "cross-origin POST accepted", {}, <<>>)
              ELSE r2
    IN  TimeCheck("sse_security", Ok(r3))

\* --------------------------------------------------- checks/chaining.py
\* the loop over all_results from the k-th on
RECURSIVE ShadowPeers(_, _, _)
ShadowPeers(r, others, k) ==
    IF k > Len(others) THEN Ok(r)
    ELSE IF others[k].url = r.url THEN ShadowPeers(r, others, k + 1)
    \* t["name"] on a peer's tool that has no name
    ELSE IF HasNameless(others[k].tools) THEN Raise(r)
    ELSE LET dupes == LowerNames(r.tools) \cap LowerNames(others[k].tools)
             r1 == IF dupes # {}
                   THEN Add(r, "tool_shadowing", "MEDIUM", "name collision", dupes,
                            <<others[k].url>>)
                   ELSE r
         IN  ShadowPeers(r1, others, k + 1)

ShadowBody(others, r) ==
    IF HasNameless(r.tools) THEN Raise(r)
    ELSE LET shadows == LowerNames(r.tools) \cap SHADOW_TARGETS
             r1 == IF shadows # {}
                   THEN Add(r, "tool_shadowing", "HIGH", "redefines common name", shadows, <<>>)
                   ELSE r
         IN  ShadowPeers(r1, others, 1)

check_tool_shadowing(others, r) == TimeCheck("tool_shadowing", ShadowBody(others, r))

ChecksHit(r) == {r.findings[k].check : k \in 1..Len(r.findings)}

\* a check that wants three categories before it speaks of many vectors
check_multi_vectorThreeVectors(r) ==
    LET hit == ChecksHit(r) \cap {"prompt_injection", "tool_poisoning", "token_theft",
                                  "code_execution", "remote_access", "indirect_injection"}
        r1 == IF Cardinality(hit) >= 3
              THEN Add(r, "multi_vector", "CRITICAL", "multi-vector attack", hit, <<>>)
              ELSE r
        r2 == IF /\ {"prompt_injection", "indirect_injection", "tool_poisoning"}
                       \cap ChecksHit(r) # {}
                 /\ {"token_theft", "remote_access"} \cap ChecksHit(r) # {}
              THEN Add(r1, "multi_vector", "CRITICAL", "injection + exfiltration", {}, <<>>)
              ELSE r1
    IN  TimeCheck("multi_vector", Ok(r2))

check_multi_vector(r) ==
    LET hit == ChecksHit(r) \cap {"prompt_injection", "tool_poisoning", "token_theft",
                                  "code_execution", "remote_access", "indirect_injection"}
        r1 == IF Cardinality(hit) >= 2
              THEN Add(r, "multi_vector", "CRITICAL", "multi-vector attack", hit, <<>>)
              ELSE r
        r2 == IF /\ {"prompt_injection", "indirect_injection", "tool_poisoning"}
                       \cap ChecksHit(r) # {}
                 /\ {"token_theft", "remote_access"} \cap ChecksHit(r) # {}
              THEN Add(r1, "multi_vector", "CRITICAL", "injection + exfiltration", {}, <<>>)
              ELSE r1
    IN  TimeCheck("multi_vector", Ok(r2))

\* `checks` is computed once, before the loop over the patterns
RECURSIVE AttackChains(_, _, _)
AttackChains(r, checks, k) ==
    IF k > Len(ATTACK_CHAIN_PATTERNS) THEN r
    ELSE AttackChains(
            IF ATTACK_CHAIN_PATTERNS[k][1] \in checks /\ ATTACK_CHAIN_PATTERNS[k][2] \in checks
            THEN Add(r, "attack_chain", "CRITICAL", "attack chain",
                     {ATTACK_CHAIN_PATTERNS[k][1], ATTACK_CHAIN_PATTERNS[k][2]}, <<>>)
            ELSE r,
            checks, k + 1)

check_attack_chains(r) == TimeCheck("attack_chains", Ok(AttackChains(r, ChecksHit(r), 1)))


\* ------------------------------------------ scanner.py: cross shadowing
\* tool_map as the list of (name, url) pairs in insertion order
RECURSIVE ToolMapPairs(_, _)
ToolMapPairs(res, order) ==
    IF order = <<>> THEN <<>>
    ELSE [k \in 1..Len(res[Head(order)].tools) |->
              [name |-> res[Head(order)].tools[k].name, url |-> res[Head(order)].url]]
         \o ToolMapPairs(res, Tail(order))

\* tool_map[name]: the urls appended under `name`, in order
RECURSIVE ServersOf(_, _)
ServersOf(pairs, n) ==
    IF pairs = <<>> THEN <<>>
    ELSE (IF Head(pairs).name = n THEN <<Head(pairs).url>> ELSE <<>>)
         \o ServersOf(Tail(pairs), n)

\* the keys of tool_map in insertion order
RECURSIVE KeysInOrder(_, _)
KeysInOrder(pairs, seen) ==
    IF pairs = <<>> THEN <<>>
    ELSE IF Head(pairs).name \in seen THEN KeysInOrder(Tail(pairs), seen)
    ELSE <<Head(pairs).name>> \o KeysInOrder(Tail(pairs), seen \cup {Head(pairs).name})

InSeq(x, seq) == \E k \in 1..Len(seq) : seq[k] = x

\* `for r in results: if r.url in servers: r.add(...)` for one name
RECURSIVE CrossAddName(_, _, _, _)
CrossAddName(res, order, n, servers) ==
    IF order = <<>> THEN res
    ELSE LET u == Head(order)
             res1 == IF InSeq(res[u].url, servers)
                     THEN [res EXCEPT ![u] = Add(@, "cross_shadowing", "MEDIUM",
                                                 "exists on several servers", {n}, servers)]
                     ELSE res
         IN  CrossAddName(res1, Tail(order), n, servers)

\* `for name, servers in tool_map.items(): if len(servers) > 1: ...`
RECURSIVE CrossAddAll(_, _, _, _)
CrossAddAll(res, order, pairs, keys) ==
    IF keys = <<>> THEN res
    ELSE LET servers == ServersOf(pairs, Head(keys))
             res1 == IF Len(servers) > 1
                     THEN CrossAddName(res, order, Head(keys), servers)
                     ELSE res
         IN  CrossAddAll(res1, order, pairs, Tail(keys))

\* detect_cross_shadowing(results): `res` holds the TargetResults, `order`
\* is the results list; t["name"] raises KeyError on a tool with no name,
\* before anything is added.
detect_cross_shadowing(res, order) ==
    IF \E k \in 1..Len(order) : HasNameless(res[order[k]].tools)
    THEN [res |-> res, raised |-> TRUE]
    ELSE LET pairs == ToolMapPairs(res, order)
         IN  [res |-> CrossAddAll(res, order, pairs, KeysInOrder(pairs, {})),
              raised |-> FALSE]


\* ---------------------------------------------------------------- diff.py
\* A tool as the differential engine reads it: with an inputSchema, a JSON
\* object written as its <<key, value>> members in the order of the text.
DTool(n, d, schema) == [name |-> n, description |-> d, inputSchema |-> schema]
\* a resource with a "uri" and a "name", either of which may be missing
DResource(uri, n) == [uri |-> uri, name |-> n]

\* t.get("name"): None when the key is missing
NameGet(t) == IF t.name = Absent THEN JsonNull ELSE t.name
\* a.get("inputSchema", {})
SchemaOr(t) == IF "inputSchema" \in DOMAIN t THEN t.inputSchema ELSE <<>>

\* json.dumps(obj) with no sort_keys: the members as written
SortKeysAsWritten(members) == members

\* json.dumps(obj, sort_keys=True): the members by ascending key
RECURSIVE SortKeys(_)
SortKeys(members) ==
    IF members = <<>> THEN <<>>
    ELSE LET least == CHOOSE k \in 1..Len(members) :
                          \A j \in 1..Len(members) : members[k][1] <= members[j][1]
             rest == [j \in 1..(Len(members) - 1) |->
                          IF j < least THEN members[j] ELSE members[j + 1]]
         IN  <<members[least]>> \o SortKeys(rest)

_tool_key(t) == NameOr(t)
\* a resource keyed by its name alone
_resource_keyNameOnly(r) == NameOr(r)

_resource_key(r) ==
    IF "uri" \in DOMAIN r
    THEN (IF r.uri # Absent THEN r.uri ELSE NameOr(r))
    ELSE NameOr(r)
_prompt_key(p) == NameOr(p)

_tools_equal(a, b) ==
    /\ NameGet(a) = NameGet(b)
    /\ DescOr(a) = DescOr(b)
    /\ SortKeys(SchemaOr(a)) = SortKeys(SchemaOr(b))

\* A Python dict as its (key, value) items in insertion order.
DictKeys(d) == {d[k][1] : k \in 1..Len(d)}
DictGet(d, key) == d[CHOOSE k \in 1..Len(d) : d[k][1] = key][2]
\* d[key] = value: a key already there keeps its place and takes the value
DictSet(d, key, value) ==
    IF key \in DictKeys(d)
    THEN [k \in 1..Len(d) |-> IF d[k][1] = key THEN <<key, value>> ELSE d[k]]
    ELSE Append(d, <<key, value>>)

\* {key(t): t for t in items}, the keys given alongside the items
RECURSIVE DictOf(_, _, _)
DictOf(items, keys, n) ==
    IF n = 0 THEN <<>> ELSE DictSet(DictOf(items, keys, n - 1), keys[n], items[n])

ToolMap(tools) == DictOf(tools, [k \in 1..Len(tools) |-> _tool_key(tools[k])], Len(tools))
ResourceMap(rs) == DictOf(rs, [k \in 1..Len(rs) |-> _resource_key(rs[k])], Len(rs))
PromptMap(ps) == DictOf(ps, [k \in 1..Len(ps) |-> _prompt_key(ps[k])], Len(ps))

\* `for key, x in a.items(): if key not in b: out.append(x)`
RECURSIVE NotIn(_, _, _)
NotIn(a, b, n) ==
    IF n = 0 THEN <<>>
    ELSE NotIn(a, b, n - 1) \o (IF a[n][1] \in DictKeys(b) THEN <<>> ELSE <<a[n][2]>>)

\* every tool of both maps taken as modified, equal or not
RECURSIVE ModifiedUnchecked(_, _, _)
ModifiedUnchecked(curr, base, n) ==
    IF n = 0 THEN <<>>
    ELSE ModifiedUnchecked(curr, base, n - 1) \o
         (IF curr[n][1] \in DictKeys(base)
          THEN << <<DictGet(base, curr[n][1]), curr[n][2]>> >>
          ELSE <<>>)

\* lines 72-76: the tools of both maps that are not equal, as (base, current)
RECURSIVE Modified(_, _, _)
Modified(curr, base, n) ==
    IF n = 0 THEN <<>>
    ELSE Modified(curr, base, n - 1) \o
         (IF curr[n][1] \in DictKeys(base) /\ ~_tools_equal(curr[n][2], DictGet(base, curr[n][1]))
          THEN << <<DictGet(base, curr[n][1]), curr[n][2]>> >>
          ELSE <<>>)

diff_against_baseline(current_tools, current_resources, current_prompts, baseline_tools, baseline_resources, baseline_prompts, url) ==
    LET base_tool_map == ToolMap(baseline_tools)
        curr_tool_map == ToolMap(current_tools)
        base_res_map == ResourceMap(baseline_resources)
        curr_res_map == ResourceMap(current_resources)
        base_prompt_map == PromptMap(baseline_prompts)
        curr_prompt_map == PromptMap(current_prompts)
    IN  [url |-> url,
         added_tools |-> NotIn(curr_tool_map, base_tool_map, Len(curr_tool_map)),
         modified_tools |-> Modified(curr_tool_map, base_tool_map, Len(curr_tool_map)),
         removed_tools |-> NotIn(base_tool_map, curr_tool_map, Len(base_tool_map)),
         added_resources |-> NotIn(curr_res_map, base_res_map, Len(curr_res_map)),
         removed_resources |-> NotIn(base_res_map, curr_res_map, Len(base_res_map)),
         added_prompts |-> NotIn(curr_prompt_map, base_prompt_map, Len(curr_prompt_map)),
         removed_prompts |-> NotIn(base_prompt_map, curr_prompt_map, Len(base_prompt_map))]

\* DiffResult.has_changes
has_changes(d) ==
    \/ d.added_tools # <<>>
    \/ d.removed_tools # <<>>
    \/ d.modified_tools # <<>>
    \/ d.added_resources # <<>>
    \/ d.removed_resources # <<>>
    \/ d.added_prompts # <<>>
    \/ d.removed_prompts # <<>>

\* The baseline file. `form` is what the text is: no file at all, text that
\* is no JSON, a JSON scalar, the current form {"targets": {url: object}},
\* a flat object {url: object}, the legacy form [object, ...] or an object
\* whose "targets" is such an array. `members` are the <<key, object>>
\* pairs in the order of the text (the key is 0 in an array); an object
\* whose own "url" is 0 has no "url" member.
BaseObject(url, tools, resources, prompts) ==
    [url |-> url, tools |-> tools, resources |-> resources, prompts |-> prompts]
File(form, members) == [form |-> form, members |-> members]
FileMissing == File("missing", <<>>)
FileCorrupt == File("corrupt", <<>>)

\* the dict a JSON object, or the comprehension of line 118, comes to: a
\* later member with the same key replaces an earlier one
MappingOf(pairs) ==
    [key \in {pairs[k][1] : k \in 1..Len(pairs)} |->
        pairs[CHOOSE k \in 1..Len(pairs) :
                  /\ pairs[k][1] = key
                  /\ \A j \in (k + 1)..Len(pairs) : pairs[j][1] # key][2]]

\* line 118: {t["url"]: t for t in targets if isinstance(t, dict) and "url" in t}
RECURSIVE ByOwnUrl(_, _)
ByOwnUrl(members, n) ==
    IF n = 0 THEN <<>>
    ELSE ByOwnUrl(members, n - 1) \o
         (IF members[n][2].url # 0 THEN << <<members[n][2].url, members[n][2]>> >> ELSE <<>>)

\* load_baseline(path): json.loads raises on text that is no JSON, and
\* data.get raises on a JSON value that is no object (an array, a scalar)
load_baseline(f) ==
    CASE f.form = "missing" -> [raised |-> FALSE, value |-> <<>>]
      [] f.form \in {"corrupt", "scalar", "legacy"} -> [raised |-> TRUE, value |-> <<>>]
      [] f.form \in {"current", "flat"} -> [raised |-> FALSE, value |-> MappingOf(f.members)]
      [] f.form = "targets_list" ->
            [raised |-> FALSE, value |-> MappingOf(ByOwnUrl(f.members, Len(f.members)))]

\* save_baseline(results, path): the current form, one member per result
save_baseline(res, order) ==
    File("current",
         [k \in 1..Len(order) |->
             <<res[order[k]].url,
               BaseObject(res[order[k]].url, res[order[k]].tools,
                          res[order[k]].resources, res[order[k]].prompts)>>])

\* ------------------------------------- lib/common.py: retry_with_backoff
\* the wrapper of retry_with_backoff(max_retries, base_delay, max_delay):
\* `attempt` is the loop variable, `calls` counts the invocations of func,
\* `statuses` are the status codes of the exceptions func raised (0 for an
\* exception with no status_code), `sleeps` the delays slept
Wrapper(max_retries, base_delay, max_delay) ==
    [pc |-> "running", max_retries |-> max_retries, base_delay |-> base_delay,
     max_delay |-> max_delay, attempt |-> 0, calls |-> 0,
     statuses |-> <<>>, sleeps |-> <<>>, raised |-> ""]
\* no wrapper is being called
IdleRetry == [Wrapper(0, 0, 0) EXCEPT !.pc = "idle"]

Min(a, b) == IF a <= b THEN a ELSE b
Max(a, b) == IF a >= b THEN a ELSE b

\* lines 225-228: min(base_delay * 2 ** attempt, max_delay), and at least
\* 5 for status 429
BackoffDelay(w, status_code) ==
    LET delay == Min(w.base_delay * 2 ^ w.attempt, w.max_delay)
    IN  IF status_code = 429 THEN Max(delay, 5) ELSE delay

\* lines 218-219: `if status_code and 400 <= status_code < 500: raise`
ClientError(status_code) == status_code # 0 /\ 400 <= status_code /\ status_code < 500

\* lines 210-231: one iteration of the loop, func raising with status_code
Failed(w, status_code) ==
    LET seen == [w EXCEPT !.calls = @ + 1, !.statuses = Append(@, status_code)]
    IN  IF ClientError(status_code) THEN [seen EXCEPT !.pc = "raised", !.raised = "last"]
        ELSE IF w.attempt < w.max_retries - 1
        THEN [seen EXCEPT !.sleeps = Append(@, BackoffDelay(w, status_code)),
                          !.attempt = @ + 1]
        ELSE [seen EXCEPT !.pc = "raised", !.raised = "last"]

\* ------------------------------------------------------------------ state
Targets == 1..Len(urls)

\* no Session.call is in progress
IdleCall == [pc |-> "idle", method |-> "", retries |-> 0, sends |-> <<>>, reply |-> ReplyNull]

InitSingle ==
    /\ urls = <<1>>
    /\ server = [i \in {1} |-> WildServer]

InitFleet ==
    \E n \in 2..MaxUrls :
        /\ urls = [i \in 1..n |-> i]
        /\ server \in [1..n -> FleetServers]

\* the baseline of an earlier run that found "search" on the first url
Baseline1 == BaseObject(1, <<TSearch>>, <<>>, <<>>)
FileLegacy1 == File("legacy", << <<0, Baseline1>> >>)
FileCurrent1 == File("current", << <<1, Baseline1>> >>)

\* A run that compares with the baseline of an earlier run: the first url
\* is in the baseline, a second one is not, and the servers serve any of
\* the tool lists.
ListedServers == {Server("honest", t) : t \in WildToolLists \cup {<<TSearchUpper>>}}
InitBaselined ==
    /\ \E n \in 1..2 :
           /\ urls = [i \in 1..n |-> i]
           /\ server \in [1..n -> ListedServers]
    /\ file = FileCurrent1

\* A run with no baseline to compare with: no file, or a file that is not
\* of the current form.
InitUnbaselined ==
    /\ (InitSingle \/ InitFleet)
    /\ file \in {FileMissing, FileCorrupt, FileLegacy1}

\* One URL is scanned against a wild server; a fleet of URLs against
\* servers of the fleet classes.
Init ==
    /\ (InitUnbaselined \/ InitBaselined)
    /\ mainPc = "init"
    /\ baseline = <<>>
    /\ diff_results = <<>>
    /\ exitCode = -1
    /\ retry = IdleRetry
    /\ listed = <<>>
    /\ lock = 0
    /\ results = <<>>
    /\ wpc = [i \in Targets |-> "queued"]
    /\ snapshot = [i \in Targets |-> <<>>]
    /\ result = [i \in Targets |-> NewResult(i)]
    /\ session = [i \in Targets |-> NewSession]
    /\ attempt = [i \in Targets |-> 0]
    /\ swallowed = [i \in Targets |-> {}]
    /\ crossRuns = 0
    /\ call = IdleCall

\* ------------------------------------------------ scanner.py: scan_target
\* the early return with the transport left at its default
NoTransportResultUnmarked(r) ==
    Timed(Add(r, "transport", "HIGH", "No MCP endpoint found", {}, <<>>), "total")

\* lines 57-67: no session
NoTransportResult(r) ==
    Timed(Add([r EXCEPT !.transport = "none"], "transport", "HIGH",
              "No MCP endpoint found", {}, <<>>),
          "total")

\* lines 51-86: the TargetResult is built and the transport detected
ScanDetect(i) ==
    /\ wpc[i] = "detect"
    /\ \E t \in Transports(server[i]) :
          IF t = "none"
          THEN /\ result' = [result EXCEPT ![i] = NoTransportResult(NewResult(i))]
               /\ session' = [session EXCEPT ![i].state = "NO_TRANSPORT"]
               /\ wpc' = [wpc EXCEPT ![i] = "returned"]
          ELSE /\ session' = [session EXCEPT ![i] = SessConnected(NewSession, t)]
               /\ result' = [result EXCEPT ![i] =
                                [NewResult(i) EXCEPT !.transport =
                                    TransportLabel(SessConnected(NewSession, t))]]
               /\ wpc' = [wpc EXCEPT ![i] = "enum_init"]
    /\ UNCHANGED <<mainVars, call, crossRuns, urls, server, mainPc, lock, results, snapshot, attempt, swallowed>>

\* --------------------------------------- enumerator.py: enumerate_server
\* the failure branch without its `return`: it falls through to line 29
EnumInitFailedFallsThrough(r) ==
    Timed(Add(Add(r, "init", "HIGH", "No response to MCP initialize", {}, <<>>),
              "auth", "HIGH", "Unauthenticated MCP initialize accepted", {}, <<>>),
          "enumerate")

\* lines 14-22: initialize gave no result
EnumInitFailed(r) ==
    Timed(Add(r, "init", "HIGH", "No response to MCP initialize", {}, <<>>), "enumerate")

\* lines 24-36: initialize was accepted
EnumInitAccepted(r) ==
    Add([r EXCEPT !.server_info = "serverInfo"], "auth", "HIGH",
        "Unauthenticated MCP initialize accepted", {}, <<>>)

\* enumerate_server going on to the listing whatever initialize returned
EnumInitializeUnchecked(i) ==
    /\ wpc[i] = "enum_init"
    /\ \E resp \in Replies(server[i], "initialize") :
          /\ result' = [result EXCEPT ![i] =
                            IF HasResult(resp) THEN EnumInitAccepted(@) ELSE EnumInitFailed(@)]
          /\ session' = [session EXCEPT ![i] =
                            IF HasResult(resp)
                            THEN SessNotify(SessCall(@, "initialize"), "notifications/initialized")
                            ELSE SessCall(@, "initialize")]
          /\ wpc' = [wpc EXCEPT ![i] = "enum_tools"]
    /\ attempt' = [attempt EXCEPT ![i] = 0]
    /\ UNCHANGED <<mainVars, call, crossRuns, urls, server, mainPc, lock, results, snapshot, swallowed>>

\* enumerate_server listing at once, with no initialized notification
EnumInitializeNoNotify(i) ==
    /\ wpc[i] = "enum_init"
    /\ \E resp \in Replies(server[i], "initialize") :
          LET s1 == SessCall(session[i], "initialize")
          IN  IF ~HasResult(resp)
              THEN /\ result' = [result EXCEPT ![i] = EnumInitFailed(@)]
                   /\ session' = [session EXCEPT ![i] = s1]
                   /\ wpc' = [wpc EXCEPT ![i] = "chk_static"]
              ELSE IF resp.type = "badresult"
              THEN /\ result' = [result EXCEPT ![i].server_info = "<not an object>"]
                   /\ session' = [session EXCEPT ![i] = s1]
                   /\ wpc' = [wpc EXCEPT ![i] = "raised"]
              ELSE /\ result' = [result EXCEPT ![i] = EnumInitAccepted(@)]
                   /\ session' = [session EXCEPT ![i] = s1]
                   /\ wpc' = [wpc EXCEPT ![i] = "enum_tools"]
    /\ attempt' = [attempt EXCEPT ![i] = 0]
    /\ UNCHANGED <<mainVars, call, crossRuns, urls, server, mainPc, lock, results, snapshot, swallowed>>

\* lines 11-39: the initialize call and what follows it at once
EnumInitialize(i) ==
    /\ wpc[i] = "enum_init"
    /\ \E resp \in Replies(server[i], "initialize") :
          LET s1 == SessCall(session[i], "initialize")
          IN  IF ~HasResult(resp)
              THEN /\ result' = [result EXCEPT ![i] = EnumInitFailed(@)]
                   /\ session' = [session EXCEPT ![i] = s1]
                   /\ wpc' = [wpc EXCEPT ![i] = "chk_static"]
              ELSE IF resp.type = "badresult"
              \* r.get("serverInfo", {}) on a result that is no object
              THEN /\ result' = [result EXCEPT ![i].server_info = "<not an object>"]
                   /\ session' = [session EXCEPT ![i] = s1]
                   /\ wpc' = [wpc EXCEPT ![i] = "raised"]
              ELSE /\ result' = [result EXCEPT ![i] = EnumInitAccepted(@)]
                   /\ session' = [session EXCEPT ![i] =
                                     SessNotify(s1, "notifications/initialized")]
                   /\ wpc' = [wpc EXCEPT ![i] = "enum_tools"]
    /\ attempt' = [attempt EXCEPT ![i] = 0]
    /\ UNCHANGED <<mainVars, call, crossRuns, urls, server, mainPc, lock, results, snapshot, swallowed>>

\* `for attempt in range(3)`
ToolsListAttempts == 3

\* lines 41-46: one turn of the tools/list loop
EnumToolsList(i) ==
    /\ wpc[i] = "enum_tools"
    /\ \E tr \in Replies(server[i], "tools/list") :
          /\ session' = [session EXCEPT ![i] = SessCall(@, "tools/list")]
          /\ IF HasResult(tr)
             THEN IF tr.type = "badresult"
                  THEN /\ wpc' = [wpc EXCEPT ![i] = "raised"]
                       /\ UNCHANGED <<mainVars, result, attempt>>
                  ELSE /\ result' = [result EXCEPT ![i].tools = tr.items]
                       /\ wpc' = [wpc EXCEPT ![i] = "enum_resources"]
                       /\ UNCHANGED attempt
             ELSE /\ attempt' = [attempt EXCEPT ![i] = @ + 1]
                  /\ wpc' = [wpc EXCEPT ![i] =
                                IF attempt[i] + 1 < ToolsListAttempts
                                THEN "enum_tools" ELSE "enum_resources"]
                  /\ UNCHANGED result
    /\ UNCHANGED <<mainVars, call, crossRuns, urls, server, mainPc, lock, results, snapshot, swallowed>>

\* lines 48-50
EnumResourcesList(i) ==
    /\ wpc[i] = "enum_resources"
    /\ \E rr \in Replies(server[i], "resources/list") :
          /\ session' = [session EXCEPT ![i] = SessCall(@, "resources/list")]
          /\ IF HasResult(rr)
             THEN IF rr.type = "badresult"
                  THEN /\ wpc' = [wpc EXCEPT ![i] = "raised"]
                       /\ UNCHANGED result
                  ELSE /\ result' = [result EXCEPT ![i].resources = rr.items]
                       /\ wpc' = [wpc EXCEPT ![i] = "enum_prompts"]
             ELSE /\ wpc' = [wpc EXCEPT ![i] = "enum_prompts"]
                  /\ UNCHANGED result
    /\ UNCHANGED <<mainVars, call, crossRuns, urls, server, mainPc, lock, results, snapshot, attempt, swallowed>>

\* lines 52-56
EnumPromptsList(i) ==
    /\ wpc[i] = "enum_prompts"
    /\ \E pr \in Replies(server[i], "prompts/list") :
          /\ session' = [session EXCEPT ![i] = SessCall(@, "prompts/list")]
          /\ IF HasResult(pr)
             THEN IF pr.type = "badresult"
                  THEN /\ wpc' = [wpc EXCEPT ![i] = "raised"]
                       /\ UNCHANGED result
                  ELSE /\ result' = [result EXCEPT ![i] =
                                        Timed([@ EXCEPT !.prompts = pr.items], "enumerate")]
                       /\ wpc' = [wpc EXCEPT ![i] = "chk_static"]
             ELSE /\ result' = [result EXCEPT ![i] = Timed(@, "enumerate")]
                  /\ wpc' = [wpc EXCEPT ![i] = "chk_static"]
    /\ UNCHANGED <<mainVars, call, crossRuns, urls, server, mainPc, lock, results, snapshot, attempt, swallowed>>


\* ------------------------------------- checks/__init__.py: run_all_checks
\* (spec.md 4.3, 4.4, 7) The catalog runs in a fixed order: the static
\* checks, the behavioral checks, then the cross-target and correlative
\* checks. An exception of a check is caught at that check's boundary and
\* the next check runs. The behavioral checks need a session whose handshake
\* is complete.
StaticCatalog ==
    <<"prompt_injection", "tool_poisoning", "excessive_permissions", "schema_risks",
      "token_theft", "code_execution", "remote_access">>

StaticCheck(name, r) ==
    CASE name = "prompt_injection" -> check_prompt_injection(r)
      [] name = "tool_poisoning" -> check_tool_poisoning(r)
      [] name = "excessive_permissions" -> check_excessive_permissions(r)
      [] name = "schema_risks" -> check_schema_risks(r)
      [] name = "token_theft" -> check_token_theft(r)
      [] name = "code_execution" -> check_code_execution(r)
      [] name = "remote_access" -> check_remote_access(r)

\* the per-check boundary: what is left of a check once its exception, if
\* any, is caught
Caught(name, out) == [res |-> out.res, caught |-> IF out.raised THEN {name} ELSE {}]

RECURSIVE RunStatic(_, _, _)
RunStatic(r, caught, k) ==
    IF k > Len(StaticCatalog) THEN [res |-> r, caught |-> caught]
    ELSE LET c == Caught(StaticCatalog[k], StaticCheck(StaticCatalog[k], r))
         IN  RunStatic(c.res, caught \cup c.caught, k + 1)

\* the all_results handed to scan_target: the snapshot holds references
Peers(i) == [k \in 1..Len(snapshot[i]) |-> result[snapshot[i][k]]]

RunCorrelative(r, others) ==
    LET a == Caught("tool_shadowing", check_tool_shadowing(others, r))
        b == Caught("multi_vector", check_multi_vector(a.res))
        c == Caught("attack_chains", check_attack_chains(b.res))
    IN  [res |-> c.res, caught |-> a.caught \cup b.caught \cup c.caught]

CheckStatic(i) ==
    /\ wpc[i] = "chk_static"
    /\ LET out == RunStatic(result[i], {}, 1)
       IN  /\ result' = [result EXCEPT ![i] = out.res]
           /\ swallowed' = [swallowed EXCEPT ![i] = @ \cup out.caught]
    /\ wpc' = [wpc EXCEPT ![i] =
                  IF session[i].state = "READY" THEN "chk_rug_pull" ELSE "chk_correlative"]
    /\ UNCHANGED <<mainVars, call, crossRuns, urls, server, mainPc, lock, results, snapshot, session, attempt>>

CheckRugPull(i) ==
    /\ wpc[i] = "chk_rug_pull"
    /\ \E first \in Replies(server[i], "tools/list") :
       \E second \in Replies(server[i], "tools/list") :
          LET out == Caught("rug_pull", check_rug_pull(result[i], first, second))
          IN  /\ result' = [result EXCEPT ![i] = out.res]
              /\ swallowed' = [swallowed EXCEPT ![i] = @ \cup out.caught]
    /\ session' = [session EXCEPT ![i] = SessCall(SessCall(@, "tools/list"), "tools/list")]
    /\ wpc' = [wpc EXCEPT ![i] = "chk_robustness"]
    /\ UNCHANGED <<mainVars, call, crossRuns, urls, server, mainPc, lock, results, snapshot, attempt>>

CheckProtocolRobustness(i) ==
    /\ wpc[i] = "chk_robustness"
    /\ \E unknown \in Replies(server[i], "nonexistent/method/xyz") :
       \E noparams \in Replies(server[i], "tools/call") :
          LET out == Caught("protocol_robustness",
                            check_protocol_robustness(result[i], unknown, noparams))
          IN  /\ result' = [result EXCEPT ![i] = out.res]
              /\ swallowed' = [swallowed EXCEPT ![i] = @ \cup out.caught]
    /\ session' = [session EXCEPT ![i] =
                      SessCall(SessCall(@, "nonexistent/method/xyz"), "tools/call")]
    /\ wpc' = [wpc EXCEPT ![i] = "chk_indirect"]
    /\ UNCHANGED <<mainVars, call, crossRuns, urls, server, mainPc, lock, results, snapshot, attempt>>

\* one resources/read per declared resource
RECURSIVE SessCalls(_, _, _)
SessCalls(s, method, n) == IF n = 0 THEN s ELSE SessCalls(SessCall(s, method), method, n - 1)

CheckIndirectInjection(i) ==
    /\ wpc[i] = "chk_indirect"
    /\ \E reads \in [1..Len(result[i].resources) -> Replies(server[i], "resources/read")] :
          LET out == Caught("indirect_injection", check_indirect_injection(result[i], reads))
          IN  /\ result' = [result EXCEPT ![i] = out.res]
              /\ swallowed' = [swallowed EXCEPT ![i] = @ \cup out.caught]
    /\ session' = [session EXCEPT ![i] =
                      SessCalls(@, "resources/read", Len(result[i].resources))]
    \* base and sse_path are set for an SSE session only (scanner.py 80-85)
    /\ wpc' = [wpc EXCEPT ![i] =
                  IF session[i].sse_url # "" THEN "chk_sse" ELSE "chk_correlative"]
    /\ UNCHANGED <<mainVars, call, crossRuns, urls, server, mainPc, lock, results, snapshot, attempt>>

CheckSseSecurity(i) ==
    /\ wpc[i] = "chk_sse"
    /\ \E open \in BOOLEAN, cors \in BOOLEAN, post \in BOOLEAN :
          LET out == Caught("sse_security", check_sse_security(result[i], open, cors, post))
          IN  /\ result' = [result EXCEPT ![i] = out.res]
              /\ swallowed' = [swallowed EXCEPT ![i] = @ \cup out.caught]
    /\ wpc' = [wpc EXCEPT ![i] = "chk_correlative"]
    /\ UNCHANGED <<mainVars, call, crossRuns, urls, server, mainPc, lock, results, snapshot, session, attempt>>

\* correlative checks that also write a finding into every peer
CheckCorrelativeMarksPeers(i) ==
    /\ wpc[i] = "chk_correlative"
    /\ LET out == RunCorrelative(result[i], Peers(i))
       IN  /\ result' = [k \in DOMAIN result |->
                            IF k = i THEN out.res
                            ELSE IF InSeq(k, snapshot[i])
                            THEN Add(result[k], "tool_shadowing", "MEDIUM", "name collision",
                                     {}, <<i>>)
                            ELSE result[k]]
           /\ swallowed' = [swallowed EXCEPT ![i] = @ \cup out.caught]
    /\ wpc' = [wpc EXCEPT ![i] = "close"]
    /\ UNCHANGED <<mainVars, call, crossRuns, urls, server, mainPc, lock, results, snapshot, session, attempt>>

CheckCorrelative(i) ==
    /\ wpc[i] = "chk_correlative"
    /\ LET out == RunCorrelative(result[i], Peers(i))
       IN  /\ result' = [result EXCEPT ![i] = out.res]
           /\ swallowed' = [swallowed EXCEPT ![i] = @ \cup out.caught]
    /\ wpc' = [wpc EXCEPT ![i] = "close"]
    /\ UNCHANGED <<mainVars, call, crossRuns, urls, server, mainPc, lock, results, snapshot, session, attempt>>

\* scanner.py lines 103-109: close the session, record the total, return
ScanClose(i) ==
    /\ wpc[i] = "close"
    /\ session' = [session EXCEPT ![i] = SessClose(@)]
    /\ result' = [result EXCEPT ![i] = Timed(@, "total")]
    /\ wpc' = [wpc EXCEPT ![i] = "returned"]
    /\ UNCHANGED <<mainVars, call, crossRuns, urls, server, mainPc, lock, results, snapshot, attempt, swallowed>>

\* ---------------------------------------------- scanner.py: run_parallel
\* a scan that has left scan_target, by returning or by raising
Finished(i) == wpc[i] \in {"done", "raised"}
\* the tasks a pool thread is busy with
Running == {i \in Targets : wpc[i] \notin {"queued", "done", "raised"}}

\* a worker that goes on to its snapshot whoever holds the lock
WorkerStartUnlocked(i) ==
    /\ mainPc = "parallel"
    /\ wpc[i] = "queued"
    /\ \A j \in Targets : j < i => wpc[j] # "queued"
    /\ Cardinality(Running) < Workers
    /\ lock' = i
    /\ wpc' = [wpc EXCEPT ![i] = "snapshot"]
    /\ UNCHANGED <<mainVars, call, crossRuns, urls, server, mainPc, results, snapshot, result, session, attempt, swallowed>>

\* A pool thread takes the next submitted url and enters `with lock:`
\* (lines 136-137); the pool has `workers` threads and hands the tasks out
\* in submission order.
WorkerStart(i) ==
    /\ mainPc = "parallel"
    /\ wpc[i] = "queued"
    /\ \A j \in Targets : j < i => wpc[j] # "queued"
    /\ Cardinality(Running) < Workers
    /\ lock = 0
    /\ lock' = i
    /\ wpc' = [wpc EXCEPT ![i] = "snapshot"]
    /\ UNCHANGED <<mainVars, call, crossRuns, urls, server, mainPc, results, snapshot, result, session, attempt, swallowed>>

\* line 138: snapshot = list(results), then the lock is released
WorkerSnapshot(i) ==
    /\ wpc[i] = "snapshot"
    /\ lock = i
    /\ snapshot' = [snapshot EXCEPT ![i] = results]
    /\ lock' = 0
    /\ wpc' = [wpc EXCEPT ![i] = "detect"]
    /\ UNCHANGED <<mainVars, call, crossRuns, urls, server, mainPc, results, result, session, attempt, swallowed>>

\* line 140: scan_target returned, the worker enters `with lock:`
WorkerLock(i) ==
    /\ mainPc = "parallel"
    /\ wpc[i] = "returned"
    /\ lock = 0
    /\ lock' = i
    /\ wpc' = [wpc EXCEPT ![i] = "append"]
    /\ UNCHANGED <<mainVars, call, crossRuns, urls, server, mainPc, results, snapshot, result, session, attempt, swallowed>>

\* line 141: results.append(r), then the lock is released
WorkerAppend(i) ==
    /\ wpc[i] = "append"
    /\ lock = i
    /\ results' = Append(results, i)
    /\ lock' = 0
    /\ wpc' = [wpc EXCEPT ![i] = "done"]
    /\ UNCHANGED <<mainVars, call, crossRuns, urls, server, mainPc, snapshot, result, session, attempt, swallowed>>

\* ------------------------------------------------------ __main__.py: main
\* lines 38-42: the baseline is loaded; an exception of load_baseline is
\* not caught and ends the process with status 1
MainLoadBaseline ==
    /\ mainPc = "init"
    /\ LET out == load_baseline(file)
       IN  /\ baseline' = out.value
           /\ mainPc' = IF out.raised THEN "crashed" ELSE "start"
           /\ exitCode' = IF out.raised THEN 1 ELSE exitCode
    /\ UNCHANGED <<listed, retry, file, diff_results, call, crossRuns, urls, server, lock, results, wpc,
                   snapshot, result, session, attempt, swallowed>>

\* line 69: one url is scanned by main itself, with an empty snapshot
MainScanSingle ==
    /\ mainPc = "start"
    /\ Len(urls) = 1
    /\ mainPc' = "single"
    /\ wpc' = [wpc EXCEPT ![1] = "detect"]
    /\ UNCHANGED <<mainVars, call, crossRuns, urls, server, lock, results, snapshot, result, session, attempt, swallowed>>

MainSingleReturn ==
    /\ mainPc = "single"
    /\ wpc[1] = "returned"
    /\ results' = <<1>>
    /\ wpc' = [wpc EXCEPT ![1] = "done"]
    /\ mainPc' = "joined"
    /\ UNCHANGED <<mainVars, call, crossRuns, urls, server, lock, snapshot, result, session, attempt, swallowed>>

\* an exception of scan_target is not caught in main: the process ends
MainSingleCrash ==
    /\ mainPc = "single"
    /\ wpc[1] = "raised"
    /\ mainPc' = "crashed"
    /\ exitCode' = 1
    /\ UNCHANGED <<listed, retry, file, baseline, diff_results, call, crossRuns, urls, server, lock, results, wpc, snapshot, result, session, attempt, swallowed>>

\* lines 71-76 and scanner.py 145-146: the futures are submitted
MainRunParallel ==
    /\ mainPc = "start"
    /\ Len(urls) # 1
    /\ mainPc' = "parallel"
    /\ UNCHANGED <<mainVars, call, crossRuns, urls, server, lock, results, wpc, snapshot, result, session, attempt, swallowed>>

\* a join that gives up on the first worker exception
MainJoinFirstException ==
    /\ mainPc = "parallel"
    /\ \/ \A i \in Targets : wpc[i] \in {"done", "raised"}
       \/ \E i \in Targets : wpc[i] = "raised"
    /\ mainPc' = "joined"
    /\ UNCHANGED <<mainVars, call, crossRuns, urls, server, lock, results, wpc, snapshot, result, session, attempt, swallowed>>

\* a join that waits for the first completed worker only
MainJoinFirstCompleted ==
    /\ mainPc = "parallel"
    /\ \E i \in Targets : wpc[i] \in {"done", "raised"}
    /\ mainPc' = "joined"
    /\ UNCHANGED <<mainVars, call, crossRuns, urls, server, lock, results, wpc, snapshot, result, session, attempt, swallowed>>

\* scanner.py 147-149: wait(futures) and the executor's exit join the
\* workers; an exception of a worker stays in its future
MainJoin ==
    /\ mainPc = "parallel"
    /\ \A i \in Targets : Finished(i)
    /\ mainPc' = "joined"
    /\ UNCHANGED <<mainVars, call, crossRuns, urls, server, lock, results, wpc, snapshot, result, session, attempt, swallowed>>

\* line 78: detect_cross_shadowing(results)
MainCrossShadowing ==
    /\ mainPc = "joined"
    /\ LET out == detect_cross_shadowing(result, results)
       IN  /\ result' = out.res
           /\ mainPc' = IF out.raised THEN "crashed" ELSE "correlated"
           /\ exitCode' = IF out.raised THEN 1 ELSE exitCode
    /\ crossRuns' = crossRuns + 1
    /\ UNCHANGED <<listed, retry, file, baseline, diff_results, call, urls, server, lock, results, wpc, snapshot, session, attempt, swallowed>>

\* lines 84-86: the targets of `results` that have a non-empty baseline entry
InBaseline(order, base) == SelectSeq(order, LAMBDA i : i \in DOMAIN base)

\* lines 86-94: the diff of one result against its baseline entry
DiffOf(r, base) ==
    diff_against_baseline(r.tools, r.resources, r.prompts,
                          base[r.url].tools, base[r.url].resources, base[r.url].prompts, r.url)

\* lines 97-103: one MEDIUM finding per added tool
RECURSIVE AddDifferential(_, _, _)
AddDifferential(r, added, n) ==
    IF n = 0 THEN r
    ELSE Add(AddDifferential(r, added, n - 1), "differential", "MEDIUM", "Added tool",
             {IF added[n].name = Absent THEN "?" ELSE added[n].name}, <<>>)

\* a pass that reports the removed tools in place of the added ones
DifferentialPassOfRemoved(res, order, base) ==
    LET hit == InBaseline(order, base)
    IN  [res |-> [i \in DOMAIN res |->
                     IF InSeq(i, hit)
                     THEN LET d == DiffOf(res[i], base)
                          IN  AddDifferential(res[i], d.removed_tools, Len(d.removed_tools))
                     ELSE res[i]],
         diff_results |-> [k \in 1..Len(hit) |-> DiffOf(res[hit[k]], base)]]

\* lines 80-104: the differential pass over `results`; it gives the
\* TargetResults with their differential findings and `diff_results`
DifferentialPass(res, order, base) ==
    LET hit == InBaseline(order, base)
    IN  [res |-> [i \in DOMAIN res |->
                     IF InSeq(i, hit)
                     THEN LET d == DiffOf(res[i], base)
                          IN  AddDifferential(res[i], d.added_tools, Len(d.added_tools))
                     ELSE res[i]],
         diff_results |-> [k \in 1..Len(hit) |-> DiffOf(res[hit[k]], base)]]

\* lines 114-116: sys.exit(1) on a CRITICAL or HIGH finding of `results`
ExitStatus(res, order) ==
    IF \E k \in 1..Len(order) : \E j \in 1..Len(res[order[k]].findings) :
           res[order[k]].findings[j].severity \in {"CRITICAL", "HIGH"}
    THEN 1 ELSE 0

\* lines 80-116: what main does once the cross pass is over, with no other
\* thread left: the differential pass, the report, the baseline saved when
\* args.save_baseline is given, and the exit
MainExit ==
    /\ mainPc = "correlated"
    /\ mainPc' = "exited"
    /\ LET out == DifferentialPass(result, results, baseline)
       IN  /\ result' = out.res
           /\ diff_results' = out.diff_results
           /\ exitCode' = ExitStatus(out.res, results)
           /\ \E save \in BOOLEAN :
                  file' = IF save THEN save_baseline(out.res, results) ELSE file
    /\ UNCHANGED <<listed, retry, baseline, call, crossRuns, urls, server, lock, results, wpc,
                   snapshot, session, attempt, swallowed>>

ScanStep(i) ==
    \/ ScanDetect(i)
    \/ EnumInitialize(i)
    \/ EnumToolsList(i)
    \/ EnumResourcesList(i)
    \/ EnumPromptsList(i)
    \/ CheckStatic(i)
    \/ CheckRugPull(i)
    \/ CheckProtocolRobustness(i)
    \/ CheckIndirectInjection(i)
    \/ CheckSseSecurity(i)
    \/ CheckCorrelative(i)
    \/ ScanClose(i)

WorkerStep(i) ==
    \/ WorkerStart(i)
    \/ WorkerSnapshot(i)
    \/ WorkerLock(i)
    \/ WorkerAppend(i)

MainStep ==
    \/ MainLoadBaseline
    \/ MainScanSingle
    \/ MainSingleReturn
    \/ MainSingleCrash
    \/ MainRunParallel
    \/ MainJoin
    \/ MainCrossShadowing
    \/ MainExit

Next ==
    \/ MainStep
    \/ \E i \in Targets : WorkerStep(i)
    \/ \E i \in Targets : ScanStep(i)

Spec == Init /\ [][Next]_vars


\* --------------------------------------- core/session.py: Session.call (spec)
\* the largest `retries` a caller passes (enumerate_server passes 3 and 2)
MaxRetries == 3

\* what one send of the request can come to: no answer in time, the
\* connection refused, a JSON-RPC result, a JSON-RPC error, or bytes that do
\* not parse
Outcomes == {"timeout", "refused", "result", "error", "garbage"}
ConnectionFailure(o) == o \in {"timeout", "refused"}
CallMethods == {"initialize", "tools/list", "resources/list", "prompts/list"}

\* the reply parsed from one round trip; an unparsable one is None
Parsed(o) ==
    CASE o = "result" -> ReplyResult(<<>>)
      [] o = "error" -> ReplyError
      [] OTHER -> ReplyNull

\* A standalone Session.call: the request is built and nothing is sent yet.
InitCall ==
    /\ urls = <<>>
    /\ server = <<>>
    /\ mainPc = "call"
    /\ file = FileMissing
    /\ baseline = <<>>
    /\ diff_results = <<>>
    /\ exitCode = -1
    /\ retry = IdleRetry
    /\ listed = <<>>
    /\ lock = 0
    /\ results = <<>>
    /\ wpc = <<>>
    /\ snapshot = <<>>
    /\ result = <<>>
    /\ session = <<>>
    /\ attempt = <<>>
    /\ swallowed = <<>>
    /\ crossRuns = 0
    /\ call = IdleCall

\* call(method, params, timeout, retries) is entered
CallBegin ==
    /\ mainPc = "call"
    /\ call.pc \in {"idle", "returned"}
    /\ \E method \in CallMethods, retries \in 0..MaxRetries :
           call' = [pc |-> "sending", method |-> method, retries |-> retries,
                    sends |-> <<>>, reply |-> ReplyNull]
    /\ UNCHANGED <<mainVars, crossRuns, urls, server, mainPc, lock, results, wpc, snapshot,
                   result, session, attempt, swallowed>>

\* a send whose loop also goes round again on a JSON-RPC error reply
CallSendRetriesOnError ==
    /\ mainPc = "call"
    /\ call.pc = "sending"
    /\ \E o \in Outcomes :
           LET sent == Append(call.sends, o) IN
           call' = IF (ConnectionFailure(o) \/ o = "error") /\ Len(sent) <= call.retries
                   THEN [call EXCEPT !.sends = sent]
                   ELSE [call EXCEPT !.sends = sent, !.pc = "returned", !.reply = Parsed(o)]
    /\ UNCHANGED <<mainVars, crossRuns, urls, server, mainPc, lock, results, wpc, snapshot,
                   result, session, attempt, swallowed>>

\* One round trip: the request is sent and the outcome decides. A
\* connection-level failure goes round again while retries are left and
\* gives None when they are used up; a parsed reply is returned as it is;
\* an unparsable one gives None.
CallSend ==
    /\ mainPc = "call"
    /\ call.pc = "sending"
    /\ \E o \in Outcomes :
           LET sent == Append(call.sends, o) IN
           call' = IF ConnectionFailure(o) /\ Len(sent) <= call.retries
                   THEN [call EXCEPT !.sends = sent]
                   ELSE [call EXCEPT !.sends = sent, !.pc = "returned", !.reply = Parsed(o)]
    /\ UNCHANGED <<mainVars, crossRuns, urls, server, mainPc, lock, results, wpc, snapshot,
                   result, session, attempt, swallowed>>

NextCall ==
    \/ CallBegin
    \/ CallSend

SpecCall == InitCall /\ [][NextCall]_vars

\* ------------------------------------------------------------- scheduling
\* A target is slow when its server never answers the transport probes:
\* the thread that scans it may sit in scan_target for ever.
Slow(i) == server[i].kind = "down"

\* run_parallel on its own: main hands two or more urls to the pool
InitParallel == Init /\ Len(urls) > 1

NextParallel ==
    \/ MainLoadBaseline
    \/ MainRunParallel
    \/ MainJoin
    \/ MainCrossShadowing
    \/ \E i \in Targets : WorkerStep(i)
    \/ \E i \in Targets : ScanStep(i)

\* a step of main or of a pool thread, but for the scans of slow targets
FairStep ==
    \/ MainLoadBaseline
    \/ MainRunParallel
    \/ MainJoin
    \/ MainCrossShadowing
    \/ \E i \in Targets : WorkerStep(i)
    \/ \E i \in Targets : ~Slow(i) /\ ScanStep(i)

\* Every thread that can take a step takes one in the end, but for the
\* threads that scan the slow targets.
FairSpec == InitParallel /\ [][NextParallel]_vars /\ WF_vars(FairStep)

\* ------------------------------------------------ a TargetResult on its own
\* the most findings added to a TargetResult on its own
MaxFindings == 3
\* the severities a finding is given, and one that has no weight
Severities == {"CRITICAL", "HIGH", "MEDIUM", "LOW", "INFO"}

\* no run of main: no url, no worker, no file
InitAlone ==
    /\ urls = <<>>
    /\ server = <<>>
    /\ file = FileMissing
    /\ diff_results = <<>>
    /\ exitCode = -1
    /\ lock = 0
    /\ results = <<>>
    /\ wpc = <<>>
    /\ snapshot = <<>>
    /\ session = <<>>
    /\ attempt = <<>>
    /\ swallowed = <<>>
    /\ crossRuns = 0
    /\ call = IdleCall

\* a fresh TargetResult and nothing else
InitResult ==
    /\ InitAlone
    /\ result = <<NewResult(1)>>
    /\ baseline = <<>>

InitScore == InitResult /\ mainPc = "score" /\ listed = <<>> /\ retry = IdleRetry

\* result.add(check, severity, title) with any severity
ScoreAdd ==
    /\ mainPc = "score"
    /\ Len(result[1].findings) < MaxFindings
    /\ \E severity \in Severities :
           result' = <<Add(result[1], "check", severity, "title", {}, <<>>)>>
    /\ UNCHANGED <<mainVars, call, crossRuns, urls, server, mainPc, lock, results, wpc,
                   snapshot, session, attempt, swallowed>>

SpecScore == InitScore /\ [][ScoreAdd]_vars

\* --------------------------------------- diff_against_baseline on its own
\* the longest tool, resource or prompt list handed to diff_against_baseline
MaxItems == 2

\* Tools "a" and "b"; "a" with another description, with a schema, with
\* the same schema in another key order and with a smaller schema; a tool
\* with no "name" and one whose name is the empty string.
DiffTools ==
    {DTool("a", "A", <<>>), DTool("a", "A reworded", <<>>), DTool("b", "B", <<>>),
     DTool("a", "A", << <<1, "x">>, <<2, "y">> >>), DTool("a", "A", << <<2, "y">>, <<1, "x">> >>),
     DTool("a", "A", << <<1, "x">> >>),
     DTool(Absent, "A", <<>>), DTool("", "A", <<>>)}
\* Resources: "u1" by its uri, "u1" by its name alone, and "u2".
DiffResources == {DResource("u1", "n1"), DResource(Absent, "u1"), DResource("u2", "n1")}
\* Prompts "p1" (in two wordings) and "p2".
DiffPrompts == {[name |-> "p1", description |-> "P"], [name |-> "p1", description |-> "P reworded"],
                [name |-> "p2", description |-> "P"]}

ListsOf(S) == UNION {[1..n -> S] : n \in 0..MaxItems}

\* the TargetResult and its baseline entry as the caller holds them
DiffInput(ct, cr, cp, bt, br, bp) ==
    /\ result = <<[NewResult(1) EXCEPT !.tools = ct, !.resources = cr, !.prompts = cp]>>
    /\ baseline = <<BaseObject(1, bt, br, bp)>>

\* the current and the baseline lists of one kind, the other kinds empty
InitDiff ==
    /\ retry = IdleRetry
    /\ InitAlone
    /\ listed = <<>>
    /\ mainPc = "diff_ready"
    /\ \/ \E ct \in ListsOf(DiffTools), bt \in ListsOf(DiffTools) :
              DiffInput(ct, <<>>, <<>>, bt, <<>>, <<>>)
       \/ \E cr \in ListsOf(DiffResources), br \in ListsOf(DiffResources) :
              DiffInput(<<>>, cr, <<>>, <<>>, br, <<>>)
       \/ \E cp \in ListsOf(DiffPrompts), bp \in ListsOf(DiffPrompts) :
              DiffInput(<<>>, <<>>, cp, <<>>, <<>>, bp)

\* diff_against_baseline(...) is called and returns its DiffResult
DiffApply ==
    /\ mainPc = "diff_ready"
    /\ mainPc' = "diff_done"
    /\ diff_results' = <<DiffOf(result[1], baseline)>>
    /\ UNCHANGED <<listed, retry, file, baseline, exitCode, call, crossRuns, urls, server, lock, results,
                   wpc, snapshot, result, session, attempt, swallowed>>

SpecDiff == InitDiff /\ [][DiffApply]_vars

\* ------------------------------------------- check_rug_pull on its own
\* the replies a server can give to the two tools/list calls
InitRugPull ==
    /\ retry = IdleRetry
    /\ InitResult
    /\ mainPc = "rug_ready"
    /\ listed \in {<<first, second>> : first \in WildReplies("tools/list"),
                                       second \in WildReplies("tools/list")}

\* check_rug_pull(session, result) gets the two replies and returns, or
\* raises into run_all_checks
RugPullApply ==
    /\ mainPc = "rug_ready"
    /\ LET out == check_rug_pull(result[1], listed[1], listed[2])
       IN  /\ result' = <<out.res>>
           /\ mainPc' = IF out.raised THEN "rug_raised" ELSE "rug_done"
    /\ UNCHANGED <<mainVars, call, crossRuns, urls, server, lock, results, wpc,
                   snapshot, session, attempt, swallowed>>

SpecRugPull == InitRugPull /\ [][RugPullApply]_vars

\* --------------------------------- a retry_with_backoff wrapper on its own
\* the status codes func may raise with: none, client errors, the rate
\* limit, server errors
StatusCodes == {0, 400, 404, 429, 500, 503}
BaseDelays == {1, 2}
MaxDelays == {3, 60}

InitRetry ==
    /\ InitAlone
    /\ result = <<>>
    /\ baseline = <<>>
    /\ listed = <<>>
    /\ mainPc = "retry"
    /\ \E n \in 0..MaxRetries, b \in BaseDelays, m \in MaxDelays : retry = Wrapper(n, b, m)

\* line 211: func is invoked in the loop and returns
RetryReturns ==
    /\ retry.pc = "running"
    /\ retry.attempt < retry.max_retries
    /\ retry' = [retry EXCEPT !.pc = "returned", !.calls = @ + 1]
    /\ UNCHANGED <<file, baseline, diff_results, exitCode, listed, call, crossRuns, urls,
                   server, mainPc, lock, results, wpc, snapshot, result, session, attempt,
                   swallowed>>

\* lines 212-231: func is invoked in the loop and raises
RetryFails ==
    /\ retry.pc = "running"
    /\ retry.attempt < retry.max_retries
    /\ \E status_code \in StatusCodes : retry' = Failed(retry, status_code)
    /\ UNCHANGED <<file, baseline, diff_results, exitCode, listed, call, crossRuns, urls,
                   server, mainPc, lock, results, wpc, snapshot, result, session, attempt,
                   swallowed>>

\* lines 233-235: the loop ended without a return or a raise, which takes
\* max_retries <= 0: no exception was seen, RuntimeError is raised
RetryLoopExit ==
    /\ retry.pc = "running"
    /\ retry.attempt >= retry.max_retries
    /\ retry' = [retry EXCEPT !.pc = "raised", !.raised = "RuntimeError"]
    /\ UNCHANGED <<file, baseline, diff_results, exitCode, listed, call, crossRuns, urls,
                   server, mainPc, lock, results, wpc, snapshot, result, session, attempt,
                   swallowed>>

NextRetry == RetryReturns \/ RetryFails \/ RetryLoopExit
SpecRetry == InitRetry /\ [][NextRetry]_vars

\* --------------------------------------- check_multi_vector on its own
\* the checks that may have fired on the target before it: the six
\* dangerous categories and one that is not
FiredChecks ==
    {"prompt_injection", "tool_poisoning", "token_theft", "code_execution",
     "remote_access", "indirect_injection", "excessive_permissions"}

InitVector ==
    /\ retry = IdleRetry
    /\ InitAlone
    /\ listed = <<>>
    /\ baseline = <<>>
    /\ mainPc = "vector_ready"
    /\ \E n \in 0..MaxFindings : \E fired \in [1..n -> FiredChecks] :
           result = <<[NewResult(1) EXCEPT !.findings =
                          [k \in 1..n |-> Finding(1, fired[k], "HIGH", "fired", {}, <<>>)]]>>

\* check_multi_vector(result) runs over the findings made so far
VectorApply ==
    /\ mainPc = "vector_ready"
    /\ mainPc' = "vector_done"
    /\ result' = <<check_multi_vector(result[1]).res>>
    /\ UNCHANGED <<mainVars, call, crossRuns, urls, server, lock, results, wpc,
                   snapshot, session, attempt, swallowed>>

SpecVector == InitVector /\ [][VectorApply]_vars

\* ================================================================ claims
ScanReturned(i) == wpc[i] \in {"returned", "append", "done"}
ScanEnded(i) == ScanReturned(i) \/ wpc[i] = "raised"
\* detect_transport gave a session for the url
HadSession(i) == session[i].state \notin {"UNINITIALIZED", "NO_TRANSPORT"}
FindingChecks(r) == {r.findings[k].check : k \in 1..Len(r.findings)}
HasFinding(r, check) == check \in FindingChecks(r)
BehavioralChecks == {"rug_pull", "protocol_robustness", "indirect_injection"}
\* run_parallel has returned (a crash of main before it is none of this)
RunParallelOver ==
    /\ Len(urls) > 1
    /\ \/ mainPc \in {"joined", "correlated", "exited"}
       \/ mainPc = "crashed" /\ crossRuns > 0

\* C1: for every target that got a session, scan_target calls close() on
\* it exactly once however the scan ends (return, enumeration failure, or
\* an exception of enumeration or of a check).
C1_CloseExactlyOnce ==
    \A i \in Targets :
        /\ session[i].closes <= 1
        /\ (ScanEnded(i) /\ HadSession(i)) => session[i].closes = 1

\* the name a check gives its findings
FindingCheckName(c) ==
    CASE c = "attack_chains" -> "attack_chain"
      [] c = "schema_risks" -> "schema_risk"
      [] OTHER -> c

\* the timing keys of every check after the static ones, for a session
\* whose handshake succeeded
LaterChecks(i) ==
    BehavioralChecks \cup {"tool_shadowing", "multi_vector", "attack_chains"}
    \cup (IF session[i].sse_url # "" THEN {"sse_security"} ELSE {})

\* C2: a check that raises while scan_target runs the catalog contributes
\* no findings, every later check still runs, and scan_target returns the
\* TargetResult with its 'total' timing.
C2_RaisingCheckContributesNothing ==
    \A i \in Targets :
        (ScanReturned(i) /\ swallowed[i] # {}) =>
            /\ \A c \in swallowed[i] : ~HasFinding(result[i], FindingCheckName(c))
            /\ "total" \in result[i].timings
            /\ {"tool_shadowing", "multi_vector", "attack_chains"} \subseteq result[i].timings
            /\ HasFinding(result[i], "auth") => LaterChecks(i) \subseteq result[i].timings

\* C3: when run_parallel is over, every url whose own scan did not end in
\* an exception has its complete TargetResult in the returned list, whatever
\* happened to the scans of the other urls (no transport, no answer to
\* initialize, an exception).
C3_OtherScansComplete ==
    RunParallelOver =>
        \A i \in Targets :
            /\ Finished(i)
            /\ server[i].kind # "broken" =>
                  /\ InSeq(i, results)
                  /\ "total" \in result[i].timings

C3_Witness ==
    /\ RunParallelOver
    /\ \E i \in Targets : wpc[i] = "raised"
    /\ \E i \in Targets : InSeq(i, results) /\ result[i].transport = "none"
    /\ \E i \in Targets : InSeq(i, results) /\ HasFinding(result[i], "init")

C5_NoTransportResult ==
    \A i \in Targets :
        session[i].state = "NO_TRANSPORT" =>
            /\ ScanReturned(i)
            /\ result[i].transport = "none"
            /\ Len(result[i].findings) = 1
            /\ result[i].findings[1].check = "transport"
            /\ result[i].findings[1].severity = "HIGH"
            /\ result[i].tools = <<>>
            /\ result[i].resources = <<>>
            /\ result[i].prompts = <<>>
            /\ result[i].timings = {"total"}
            /\ session[i].wire = <<>>
            /\ session[i].closes = 0

C5_Witness ==
    \E i \in Targets : wpc[i] = "done" /\ session[i].state = "NO_TRANSPORT"

\* the requests of a session went out in the right state: initialize and the
\* initialized notification on a connected session, everything else on a
\* ready one, nothing before the transport is there or after close()
WireDiscipline(s) ==
    \A k \in 1..Len(s.wire) :
        IF s.wire[k].method \in {"initialize", "notifications/initialized"}
        THEN s.wire[k].state = "CONNECTED"
        ELSE s.wire[k].state = "READY"

ChainTransitions ==
    {<<"UNINITIALIZED", "CONNECTED">>, <<"UNINITIALIZED", "NO_TRANSPORT">>,
     <<"CONNECTED", "READY">>, <<"READY", "CLOSED">>}

\* C7 as stated: a session only moves UNINITIALIZED -> CONNECTED -> READY ->
\* CLOSED (or UNINITIALIZED -> NO_TRANSPORT), and its requests respect the
\* handshake and close().
C7_SessionChainOnly ==
    [][\A i \in Targets :
          /\ session[i].state' # session[i].state =>
                <<session[i].state, session[i].state'>> \in ChainTransitions
          /\ WireDiscipline(session[i]')]_vars

\* C7 amended: as above, and a session whose handshake failed is closed
\* from CONNECTED.
C7_SessionStateMachine ==
    [][\A i \in Targets :
          /\ session[i].state' # session[i].state =>
                <<session[i].state, session[i].state'>>
                    \in ChainTransitions \cup {<<"CONNECTED", "CLOSED">>}
          /\ WireDiscipline(session[i]')]_vars

C7_Witness ==
    \E i \in Targets :
        /\ session[i].state = "CLOSED"
        /\ \E k \in 1..Len(session[i].wire) : session[i].wire[k].method = "tools/call"
        /\ \E k \in 1..Len(session[i].wire) : session[i].wire[k].method = "resources/read"

HasCrossFinding(i) == HasFinding(result[i], "cross_shadowing")

\* C8: detect_cross_shadowing runs once, only after every worker has left
\* scan_target and appended what it returned, and no scan_target runs while
\* or after it runs.
C8_CrossPassAfterJoin ==
    /\ crossRuns <= 1
    /\ (crossRuns = 1 \/ mainPc \in {"joined", "correlated"}) =>
          /\ lock = 0
          /\ \A i \in Targets : Finished(i) /\ (wpc[i] = "done" => InSeq(i, results))
    /\ (\E i \in Targets : HasCrossFinding(i)) => crossRuns = 1

C8_Witness ==
    /\ crossRuns = 1
    /\ Len(results) = MaxUrls
    /\ \A i \in Targets : HasCrossFinding(i)

AllToolNames == {"search", "Search", "audit", Absent}

CrossFindings(r, n) ==
    {k \in 1..Len(r.findings) :
        r.findings[k].check = "cross_shadowing" /\ r.findings[k].subject = {n}}

\* C9: after detect_cross_shadowing(results) a target carries a MEDIUM
\* cross_shadowing finding for tool name n exactly when n is in its tool
\* list and in the tool list of another target, and then exactly one.
C9_CrossShadowingExact ==
    mainPc = "correlated" =>
        \A t \in Targets : \A n \in AllToolNames :
            InSeq(t, results) =>
                /\ Cardinality(CrossFindings(result[t], n)) =
                      IF /\ n \in ToolNames(result[t].tools)
                         /\ \E u \in Targets \ {t} :
                               InSeq(u, results) /\ n \in ToolNames(result[u].tools)
                      THEN 1 ELSE 0
                /\ \A k \in CrossFindings(result[t], n) :
                      result[t].findings[k].severity = "MEDIUM"

\* C6: Session.call sends the request again only after a connection-level
\* failure (timeout, connection refused) and at most `retries` times; a
\* well-formed JSON-RPC reply, an error reply included, ends the call and
\* is the value returned.
C6_CallRetriesOnlyOnConnectionFailure ==
    LET n == Len(call.sends) IN
    /\ \A k \in 1..(n - 1) : ConnectionFailure(call.sends[k])
    /\ n <= call.retries + 1
    /\ (call.pc = "sending" /\ n > 0) => ConnectionFailure(call.sends[n])
    /\ (call.pc = "returned" /\ n > 0 /\ call.sends[n] \in {"result", "error"})
           => call.reply = Parsed(call.sends[n])
    /\ (call.pc = "returned" /\ n > 0 /\ ConnectionFailure(call.sends[n]))
           => (n = call.retries + 1 /\ call.reply = ReplyNull)

\* a call that timed out once, was sent again, got an error reply and
\* returned it with retries still left
C6_Witness ==
    /\ call.pc = "returned"
    /\ call.retries >= 2
    /\ call.sends = <<"timeout", "error">>
    /\ call.reply = ReplyError

\* C10: in run_parallel, while fewer targets are slow than there are
\* workers, every other submitted url is scanned in the end and its result
\* appended to the shared results list.
C10_SlowTargetBlocksOnlyItsSlot ==
    \A i \in 1..MaxUrls :
        (/\ mainPc = "parallel"
         /\ i \in Targets
         /\ ~Slow(i)
         /\ Cardinality({j \in Targets : Slow(j)}) < Workers)
            ~> (i \in Targets /\ InSeq(i, results))

\* a CRITICAL or HIGH finding on some target whose scan was started
SevereFinding ==
    \E i \in Targets :
        /\ wpc[i] # "queued"
        /\ \E k \in 1..Len(result[i].findings) :
               result[i].findings[k].severity \in {"CRITICAL", "HIGH"}

\* C11: once targets were scanned and the process has ended, its exit code
\* is 1 if and only if some finding of a scanned target is CRITICAL or HIGH
\* after all passes; otherwise it is 0.
C11_ExitCodeIffSevereFinding ==
    (exitCode # -1 /\ \E i \in Targets : wpc[i] # "queued")
        => /\ exitCode \in {0, 1}
           /\ exitCode = 1 <=> SevereFinding

\* the findings of a TargetResult that have the given severity
CountSeverity(r, severity) ==
    Cardinality({k \in 1..Len(r.findings) : r.findings[k].severity = severity})
SeveritiesOf(r) == [k \in 1..Len(r.findings) |-> r.findings[k].severity]

\* C12: risk_score() of a TargetResult is always the sum over its findings
\* of CRITICAL=10, HIGH=7, MEDIUM=4, LOW=1 and 0 for any other severity;
\* [CRITICAL, HIGH, LOW] gives 18, no findings give 0, and appending a
\* finding never lowers the score.
C12_RiskScoreWeightedSum ==
    /\ [](\A i \in DOMAIN result :
            /\ risk_score(result[i]) =
                   10 * CountSeverity(result[i], "CRITICAL") + 7 * CountSeverity(result[i], "HIGH")
                   + 4 * CountSeverity(result[i], "MEDIUM") + CountSeverity(result[i], "LOW")
            /\ SeveritiesOf(result[i]) = <<"CRITICAL", "HIGH", "LOW">> => risk_score(result[i]) = 18
            /\ result[i].findings = <<>> => risk_score(result[i]) = 0)
    /\ [][\A i \in DOMAIN result : risk_score(result'[i]) >= risk_score(result[i])]_vars

\* a TargetResult with a CRITICAL, a HIGH and an unweighted finding scores 17
C12_Witness ==
    /\ mainPc = "score"
    /\ SeveritiesOf(result[1]) = <<"CRITICAL", "INFO", "HIGH">>
    /\ risk_score(result[1]) = 17

\* diff_against_baseline has returned; its arguments and its DiffResult
DiffDone == mainPc = "diff_done"
Cur == result[1]
Base == baseline[1]
TheDiff == diff_results[1]
NoListedChange(d) ==
    /\ d.added_tools = <<>> /\ d.removed_tools = <<>> /\ d.modified_tools = <<>>
    /\ d.added_resources = <<>> /\ d.removed_resources = <<>>
    /\ d.added_prompts = <<>> /\ d.removed_prompts = <<>>

\* C13: diffing tool, resource and prompt lists against themselves gives a
\* DiffResult whose added, removed and modified lists are all empty and
\* whose has_changes() is false.
C13_DiffIdempotent ==
    (/\ DiffDone
     /\ Cur.tools = Base.tools /\ Cur.resources = Base.resources /\ Cur.prompts = Base.prompts)
        => (NoListedChange(TheDiff) /\ ~has_changes(TheDiff))

\* two tools of one name, with different schemas, diffed against themselves
C13_Witness ==
    /\ DiffDone
    /\ Cur.tools = Base.tools
    /\ Len(Cur.tools) = 2
    /\ Cur.tools[1].name = "a" /\ Cur.tools[2].name = "a"
    /\ Cur.tools[1] # Cur.tools[2]
    /\ ~has_changes(TheDiff)

\* the keys the claims speak of: a tool's and a prompt's name, a resource's
\* uri or, failing that, its name
NameKey(t) == IF t.name = Absent THEN "" ELSE t.name
UriKey(r) == IF r.uri # Absent THEN r.uri ELSE NameKey(r)
InList(x, list) == \E k \in 1..Len(list) : list[k] = x
KeysOf(list, Key(_)) == {Key(list[k]) : k \in 1..Len(list)}
\* the entries of `list` whose key no entry of `other` has
AbsentFrom(list, other, Key(_)) ==
    SelectSeq(list, LAMBDA x : Key(x) \notin KeysOf(other, Key))
\* the last entry of `list` that has the key
LastOf(list, Key(_), key) ==
    list[CHOOSE k \in 1..Len(list) :
             /\ Key(list[k]) = key
             /\ \A j \in (k + 1)..Len(list) : Key(list[j]) # key]
\* one entry per key, the last one that has it, at the place of the first
OnePerKey(list, Key(_)) ==
    LET firsts == SelectSeq([k \in 1..Len(list) |-> k],
                            LAMBDA k : \A j \in 1..(k - 1) : Key(list[j]) # Key(list[k]))
    IN  [m \in 1..Len(firsts) |-> LastOf(list, Key, Key(list[firsts[m]]))]

ToolA == DTool("a", "A", <<>>)
ToolB == DTool("b", "B", <<>>)

\* every entry of `list` is in `out` exactly when no entry of `other` has
\* its key, and `out` holds entries of `list` only
Classified(out, list, other, Key(_)) ==
    /\ \A k \in 1..Len(list) : InList(list[k], out) <=> Key(list[k]) \notin KeysOf(other, Key)
    /\ \A k \in 1..Len(out) : InList(out[k], list)

\* C14 as stated: an entry is in the added list exactly when its key is
\* absent from the baseline, and in the removed list exactly when its key
\* is absent from the current list, for tools (by name), resources (by uri,
\* else name) and prompts (by name).
C14_AddedRemovedAllEntries ==
    DiffDone =>
        /\ Classified(TheDiff.added_tools, Cur.tools, Base.tools, NameKey)
        /\ Classified(TheDiff.removed_tools, Base.tools, Cur.tools, NameKey)
        /\ Classified(TheDiff.added_resources, Cur.resources, Base.resources, UriKey)
        /\ Classified(TheDiff.removed_resources, Base.resources, Cur.resources, UriKey)
        /\ Classified(TheDiff.added_prompts, Cur.prompts, Base.prompts, NameKey)
        /\ Classified(TheDiff.removed_prompts, Base.prompts, Cur.prompts, NameKey)

\* C14, amended: the same with one entry per key, the last entry that has
\* the key; baseline [A] against current [A, B] gives added [B], nothing
\* removed or modified, and baseline [A, B] against current [A] gives
\* removed [B].
C14_AddedRemovedOnePerKey ==
    DiffDone =>
        /\ TheDiff.added_tools = AbsentFrom(OnePerKey(Cur.tools, NameKey), Base.tools, NameKey)
        /\ TheDiff.removed_tools = AbsentFrom(OnePerKey(Base.tools, NameKey), Cur.tools, NameKey)
        /\ TheDiff.added_resources =
               AbsentFrom(OnePerKey(Cur.resources, UriKey), Base.resources, UriKey)
        /\ TheDiff.removed_resources =
               AbsentFrom(OnePerKey(Base.resources, UriKey), Cur.resources, UriKey)
        /\ TheDiff.added_prompts = AbsentFrom(OnePerKey(Cur.prompts, NameKey), Base.prompts, NameKey)
        /\ TheDiff.removed_prompts = AbsentFrom(OnePerKey(Base.prompts, NameKey), Cur.prompts, NameKey)
        /\ (Base.tools = <<ToolA>> /\ Cur.tools = <<ToolA, ToolB>>)
               => /\ TheDiff.added_tools = <<ToolB>>
                  /\ TheDiff.removed_tools = <<>>
                  /\ TheDiff.modified_tools = <<>>
        /\ (Base.tools = <<ToolA, ToolB>> /\ Cur.tools = <<ToolA>>)
               => TheDiff.removed_tools = <<ToolB>>

\* a resource that has only a name is added next to one known by its uri
C14_Witness ==
    /\ DiffDone
    /\ Base.resources = <<DResource("u2", "n1")>>
    /\ Cur.resources = <<DResource("u2", "n1"), DResource(Absent, "u1")>>
    /\ TheDiff.added_resources = <<DResource(Absent, "u1")>>
    /\ TheDiff.removed_resources = <<>>

\* the key-order-independent form of a schema: the set of its members
Members(schema) == {schema[k] : k \in 1..Len(schema)}
DescriptionOf(t) == IF t.description = Absent THEN "" ELSE t.description
CommonNames == KeysOf(Base.tools, NameKey) \cap KeysOf(Cur.tools, NameKey)

\* C15 as stated: for a baseline tool and a current tool of one name, the
\* pair is in modified_tools exactly when the description or the
\* key-order-independent form of inputSchema differs, and no tool of such
\* a name is in added_tools or removed_tools.
C15_ModifiedByDescriptionOrSchema ==
    DiffDone =>
        /\ \A i \in 1..Len(Base.tools), j \in 1..Len(Cur.tools) :
               NameKey(Base.tools[i]) = NameKey(Cur.tools[j]) =>
                   (InList(<<Base.tools[i], Cur.tools[j]>>, TheDiff.modified_tools)
                       <=> (\/ DescriptionOf(Base.tools[i]) # DescriptionOf(Cur.tools[j])
                            \/ Members(Base.tools[i].inputSchema) # Members(Cur.tools[j].inputSchema)))
        /\ \A k \in 1..Len(TheDiff.added_tools) : NameKey(TheDiff.added_tools[k]) \notin CommonNames
        /\ \A k \in 1..Len(TheDiff.removed_tools) : NameKey(TheDiff.removed_tools[k]) \notin CommonNames

\* what _tools_equal tells apart: the "name" member (missing or not), the
\* description and the key-order-independent form of inputSchema
ToolsDiffer(b, c) ==
    \/ b.name # c.name
    \/ DescriptionOf(b) # DescriptionOf(c)
    \/ Members(b.inputSchema) # Members(c.inputSchema)

\* C15, amended: for a name in both lists the last baseline entry and the
\* last current entry of that name are compared; the pair is in
\* modified_tools, once, exactly when their "name" member, description or
\* key-order-independent inputSchema differs, modified_tools holds nothing
\* else, and no tool of that name is in added_tools or removed_tools.
C15_ModifiedLastEntriesByNameDescriptionSchema ==
    DiffDone =>
        /\ \A n \in CommonNames :
               LET b == LastOf(Base.tools, NameKey, n)
                   c == LastOf(Cur.tools, NameKey, n)
               IN  InList(<<b, c>>, TheDiff.modified_tools) <=> ToolsDiffer(b, c)
        /\ Len(TheDiff.modified_tools) =
               Cardinality({n \in CommonNames :
                               ToolsDiffer(LastOf(Base.tools, NameKey, n), LastOf(Cur.tools, NameKey, n))})
        /\ \A k \in 1..Len(TheDiff.added_tools) : NameKey(TheDiff.added_tools[k]) \notin CommonNames
        /\ \A k \in 1..Len(TheDiff.removed_tools) : NameKey(TheDiff.removed_tools[k]) \notin CommonNames

\* a schema whose keys come in another order is no modification, next to a
\* tool that is in the baseline only
C15_Witness ==
    /\ DiffDone
    /\ Base.tools = <<DTool("a", "A", << <<1, "x">>, <<2, "y">> >>), ToolB>>
    /\ Cur.tools = <<DTool("a", "A", << <<2, "y">>, <<1, "x">> >>)>>
    /\ TheDiff.modified_tools = <<>>
    /\ TheDiff.removed_tools = <<ToolB>>

\* the 'differential' findings of a TargetResult, in order
DifferentialFindings(r) == SelectSeq(r.findings, LAMBDA f : f.check = "differential")
\* the DiffResults that main computed for a url
DiffsFor(url) == SelectSeq(diff_results, LAMBDA d : d.url = url)

\* C16: after the differential pass a target that is in the baseline has
\* one MEDIUM 'differential' finding per tool of its diff.added_tools, in
\* order and named after the tool, and no other differential finding (none
\* for removed or modified tools); a target that is not in the baseline,
\* or any target when no baseline was loaded, has none.
C16_DifferentialFindingPerAddedTool ==
    mainPc = "exited" =>
        \A k \in 1..Len(results) :
            LET r == result[results[k]]
                found == DifferentialFindings(r)
            IN  IF r.url \in DOMAIN baseline
                THEN /\ Len(DiffsFor(r.url)) = 1
                     /\ LET added == DiffsFor(r.url)[1].added_tools
                        IN  /\ Len(found) = Len(added)
                            /\ \A n \in 1..Len(found) :
                                   /\ found[n].severity = "MEDIUM"
                                   /\ found[n].subject =
                                          {IF added[n].name = Absent THEN "?" ELSE added[n].name}
                ELSE /\ found = <<>>
                     /\ DiffsFor(r.url) = <<>>

\* two targets list "search" and "audit"; the first is in the baseline,
\* which has "search" only, the second is not
C16_Witness ==
    /\ mainPc = "exited"
    /\ Len(results) = 2
    /\ 1 \in DOMAIN baseline /\ 2 \notin DOMAIN baseline
    /\ result[1].tools = <<TSearch, TAudit>>
    /\ result[2].tools = <<TSearch, TAudit>>
    /\ Len(DifferentialFindings(result[1])) = 1
    /\ DifferentialFindings(result[1])[1].subject = {"audit"}
    /\ DifferentialFindings(result[2]) = <<>>

\* C17: loading the baseline never ends the run: from a file that is
\* missing, or present but no JSON, main goes on to the scan with an empty
\* baseline, and the run ends with no differential finding.
C17_BaselineLoadNeverAborts ==
    /\ [][(mainPc = "init" /\ file.form \in {"missing", "corrupt"})
              => (mainPc' = "start" /\ baseline' = <<>> /\ exitCode' = exitCode)]_vars
    /\ []((mainPc = "exited" /\ baseline = <<>>)
              => \A k \in 1..Len(results) : DifferentialFindings(result[results[k]]) = <<>>)

\* the url -> {tools, resources, prompts} mapping of per-target objects
\* that are identified by their own url
ByUrl(objects) == [u \in {objects[k].url : k \in 1..Len(objects)} |->
                      objects[CHOOSE k \in 1..Len(objects) : objects[k].url = u]]
MemberObjects(f) == [k \in 1..Len(f.members) |-> f.members[k][2]]

\* C18: load_baseline gives the same mapping for the current form (an
\* object whose "targets" maps url to the per-target object) and the legacy
\* form (a top-level array of per-target objects), and what save_baseline
\* wrote loads back with every saved url mapped to its saved tools,
\* resources and prompts.
C18_BaselineFormsAndRoundTrip ==
    /\ [][(mainPc = "init" /\ file.form \in {"current", "legacy"})
              => (mainPc' = "start" /\ baseline' = ByUrl(MemberObjects(file)))]_vars
    /\ [](mainPc = "exited" =>
              LET back == load_baseline(save_baseline(result, results))
              IN  /\ ~back.raised
                  /\ DOMAIN back.value = {result[results[k]].url : k \in 1..Len(results)}
                  /\ \A k \in 1..Len(results) :
                         LET r == result[results[k]]
                         IN  /\ back.value[r.url].tools = r.tools
                             /\ back.value[r.url].resources = r.resources
                             /\ back.value[r.url].prompts = r.prompts)

\* check_rug_pull has returned or raised, on two successful snapshots
RugPullOver == mainPc \in {"rug_done", "rug_raised"}
BothListed == listed[1].type = "result" /\ listed[2].type = "result"
RugPullFindings == SelectSeq(result[1].findings, LAMBDA f : f.check = "rug_pull")
NamesIn(items) == {items[k].name : k \in 1..Len(items)} \ {Absent}
\* t.get("description"): None for a missing and for a null description
DescriptionValue(t) == IF t.description = Absent THEN JsonNull ELSE t.description
DescriptionDiffers(n) ==
    \E j \in 1..Len(listed[1].items), k \in 1..Len(listed[2].items) :
        /\ listed[1].items[j].name = n
        /\ listed[2].items[k].name = n
        /\ DescriptionValue(listed[1].items[j]) # DescriptionValue(listed[2].items[k])
RugPullCount(severity, title, subject) ==
    Cardinality({k \in 1..Len(RugPullFindings) :
                    /\ RugPullFindings[k].severity = severity
                    /\ RugPullFindings[k].title = title
                    /\ RugPullFindings[k].subject = subject})

\* C19: on two successful tools/list snapshots, a tool named in both has
\* exactly one CRITICAL "description changed" finding when its description
\* differs and none when it does not; the tools named only in the second
\* snapshot give a HIGH "appeared" finding, those named only in the first
\* a HIGH "disappeared" finding; identical snapshots give no rug_pull
\* finding.
C19_RugPullFindings ==
    (RugPullOver /\ BothListed) =>
        LET n1 == NamesIn(listed[1].items)
            n2 == NamesIn(listed[2].items)
        IN  /\ \A n \in n1 \cap n2 :
                   RugPullCount("CRITICAL", "description changed", {n})
                       = IF DescriptionDiffers(n) THEN 1 ELSE 0
            /\ RugPullCount("HIGH", "appeared", n2 \ n1) = IF n2 \ n1 # {} THEN 1 ELSE 0
            /\ RugPullCount("HIGH", "disappeared", n1 \ n2) = IF n1 \ n2 # {} THEN 1 ELSE 0
            /\ listed[1] = listed[2] => RugPullFindings = <<>>

\* check_multi_vector has run: the categories that had fired before it and
\* the findings it appended
VectorDone == mainPc = "vector_done"
FiredBefore ==
    {result[1].findings[k].check : k \in 1..Len(result[1].findings)} \ {"multi_vector"}
Appended == SelectSeq(result[1].findings, LAMBDA f : f.check = "multi_vector")
AppendedTitled(title) == {k \in 1..Len(Appended) : Appended[k].title = title}
Dangerous ==
    {"prompt_injection", "tool_poisoning", "token_theft", "code_execution",
     "remote_access", "indirect_injection"}
InjectionFired == FiredBefore \cap {"prompt_injection", "indirect_injection", "tool_poisoning"} # {}
ExfiltrationFired == FiredBefore \cap {"token_theft", "remote_access"} # {}

\* C20: check_multi_vector appends one multi-vector finding exactly when
\* at least 2 distinct dangerous categories fired, and one more CRITICAL
\* "injection + exfiltration" finding exactly when an injection category
\* and an exfiltration category fired; with fewer than 2 dangerous
\* categories it appends nothing, so the second finding never comes
\* without the first.
C20_MultiVectorFindings ==
    VectorDone =>
        /\ Cardinality(AppendedTitled("multi-vector attack"))
               = IF Cardinality(FiredBefore \cap Dangerous) >= 2 THEN 1 ELSE 0
        /\ Cardinality(AppendedTitled("injection + exfiltration"))
               = IF InjectionFired /\ ExfiltrationFired THEN 1 ELSE 0
        /\ \A k \in 1..Len(Appended) : Appended[k].severity = "CRITICAL"
        /\ Len(Appended) = Cardinality(AppendedTitled("multi-vector attack"))
                               + Cardinality(AppendedTitled("injection + exfiltration"))
        /\ Cardinality(FiredBefore \cap Dangerous) < 2 => Appended = <<>>
        /\ AppendedTitled("injection + exfiltration") # {}
               => AppendedTitled("multi-vector attack") # {}

\* tool poisoning and token theft fired, and both findings were appended
C20_Witness ==
    /\ VectorDone
    /\ FiredBefore = {"tool_poisoning", "token_theft"}
    /\ Len(Appended) = 2
    /\ Appended[1].title = "multi-vector attack"
    /\ Appended[2].title = "injection + exfiltration"

\* the k-th invocation of func failed and was followed by a sleep and
\* another invocation
Retried(k) == k <= Len(retry.sleeps)

\* C21: the wrapped function is invoked at most max_retries times; a
\* failure with status 429 that is not the last attempt is retried after a
\* delay of at least 5 seconds, a 5xx failure after
\* min(base_delay * 2 ** attempt, max_delay); any other 4xx failure is
\* raised at once with no retry; when all attempts failed the last
\* exception is raised.
C21_RetryWithBackoff ==
    retry.pc # "idle" =>
        /\ retry.calls <= retry.max_retries
        /\ \A k \in 1..Len(retry.statuses) :
               LET status_code == retry.statuses[k]
               IN  /\ (status_code = 429 /\ k < retry.max_retries)
                          => (Retried(k) /\ retry.sleeps[k] >= 5)
                   /\ (status_code \in 500..599 /\ k < retry.max_retries)
                          => /\ Retried(k)
                             /\ retry.sleeps[k] =
                                    Min(retry.base_delay * 2 ^ (k - 1), retry.max_delay)
                   /\ (status_code \in 400..499 /\ status_code # 429)
                          => (~Retried(k) /\ retry.pc = "raised" /\ retry.raised = "last")
        /\ (retry.max_retries > 0 /\ Len(retry.statuses) = retry.max_retries)
               => (retry.pc = "raised" /\ retry.raised = "last")

\* enumerate_server is under way or has just ended for target i: all that
\* went out on the session so far is what enumerate_server sent
Enumerating(i) ==
    wpc[i] \in {"enum_tools", "enum_resources", "enum_prompts", "chk_static", "raised"}
FindingsOf(r, check) == SelectSeq(r.findings, LAMBDA f : f.check = check)
\* the place of a request in enumerate_server's order
Rank(request) ==
    CASE request.kind = "call" /\ request.method = "initialize" -> 0
      [] request.kind = "notify" /\ request.method = "notifications/initialized" -> 1
      [] request.kind = "call" /\ request.method = "tools/list" -> 2
      [] request.kind = "call" /\ request.method = "resources/list" -> 3
      [] request.kind = "call" /\ request.method = "prompts/list" -> 4
      [] OTHER -> 9

\* C22: enumerate_server sends initialize first; whatever else it sends
\* comes after initialize returned a result (the 'auth' finding records
\* it): the initialized notification right after initialize, then the
\* tools/list, resources/list and prompts/list calls in that order. When
\* initialize yields no result there is exactly one HIGH 'init' finding
\* and nothing but initialize was sent.
C22_EnumerationOrder ==
    \A i \in Targets :
        Enumerating(i) =>
            LET w == session[i].wire
                accepted == FindingsOf(result[i], "auth") # <<>>
                inits == FindingsOf(result[i], "init")
            IN  /\ Len(w) >= 1
                /\ Rank(w[1]) = 0
                /\ \A k \in 2..Len(w) :
                       /\ accepted
                       /\ Rank(w[k]) = 1 <=> k = 2
                       /\ Rank(w[k]) \in 1..4
                       /\ Rank(w[k]) >= Rank(w[k - 1])
                /\ accepted => Len(w) >= 2
                /\ inits # <<>> =>
                       /\ Len(inits) = 1
                       /\ inits[1].severity = "HIGH"
                       /\ Len(w) = 1
                       /\ ~accepted
                /\ (wpc[i] = "chk_static" /\ ~accepted) => inits # <<>>
                /\ server[i].kind = "mute" => inits # <<>>

\* an enumeration that went through the three lists, and one that stopped
\* at initialize
C22_Witness ==
    /\ \E i \in Targets :
           /\ wpc[i] = "chk_static"
           /\ Len(session[i].wire) >= 5
           /\ Rank(session[i].wire[Len(session[i].wire)]) = 4
    /\ \E i \in Targets :
           /\ wpc[i] = "chk_static"
           /\ Len(session[i].wire) = 1
           /\ Len(FindingsOf(result[i], "init")) = 1

\* how many times a method was called on the session of target i
CallsOf(i, method) ==
    Cardinality({k \in 1..Len(session[i].wire) :
                    session[i].wire[k].kind = "call" /\ session[i].wire[k].method = method})
\* enumerate_server has ended, by returning or by raising, for a target
\* whose initialize was accepted
Enumerated(i) ==
    /\ wpc[i] \in {"chk_static", "raised"}
    /\ FindingsOf(result[i], "auth") # <<>>

\* C23: in enumerate_server tools/list is called at most 3 times and not
\* again after a call that returned a result (`attempt` counts the calls
\* that did not); once enumerate_server is over, resources/list and
\* prompts/list were each called exactly once; the tools stay empty when
\* no call succeeded, and enumeration adds no finding but 'auth' and sets
\* no error.
C23_ListCalls ==
    \A i \in Targets :
        /\ Enumerating(i) =>
               /\ CallsOf(i, "tools/list") <= 3
               /\ CallsOf(i, "tools/list") - attempt[i] \in {0, 1}
               /\ CallsOf(i, "tools/list") > attempt[i] => wpc[i] # "enum_tools"
               /\ CallsOf(i, "tools/list") = attempt[i] => result[i].tools = <<>>
               /\ CallsOf(i, "resources/list") = 0 => result[i].resources = <<>>
               /\ CallsOf(i, "prompts/list") = 0 => result[i].prompts = <<>>
               /\ result[i].error = ""
               /\ Len(result[i].findings) <= 1
        /\ Enumerated(i) =>
               /\ CallsOf(i, "tools/list") >= 1
               /\ CallsOf(i, "resources/list") = 1
               /\ CallsOf(i, "prompts/list") = 1

\* the workers that are between acquiring and releasing the lock
InLockedSection == {i \in Targets : wpc[i] \in {"snapshot", "append"}}
IsPrefix(a, b) == Len(a) <= Len(b) /\ \A k \in 1..Len(a) : a[k] = b[k]
\* worker i has taken its snapshot
SnapshotTaken(i) == wpc[i] \notin {"queued", "snapshot"}

\* C24: in run_parallel the shared list is copied and appended to only by
\* the worker that holds the lock, and at most one worker is in these
\* sections; every snapshot is a prefix of the results list from then on
\* (so of the final one), holds only results of workers that have appended
\* theirs, and never changes once taken.
C24_SnapshotUnderLock ==
    /\ [](mainPc = "parallel" =>
            /\ Cardinality(InLockedSection) <= 1
            /\ \A i \in InLockedSection : lock = i
            /\ lock # 0 => lock \in InLockedSection)
    /\ [](Len(urls) > 1 =>
            \A i \in Targets :
                /\ IsPrefix(snapshot[i], results)
                /\ \A k \in 1..Len(snapshot[i]) : wpc[snapshot[i][k]] = "done")
    /\ [][mainPc = "parallel" =>
            /\ results' # results =>
                   (lock \in Targets /\ wpc[lock] = "append" /\ results' = Append(results, lock))
            /\ \A i \in Targets :
                   /\ snapshot'[i] # snapshot[i] =>
                          (lock = i /\ wpc[i] = "snapshot" /\ snapshot'[i] = results)
                   /\ SnapshotTaken(i) => snapshot'[i] = snapshot[i]]_vars

\* run_parallel is over; a worker had taken a snapshot of one result, and
\* two more were appended after it
C24_Witness ==
    /\ mainPc = "joined"
    /\ Len(results) = 3
    /\ \E i \in Targets : Len(snapshot[i]) = 1 /\ results[3] = i

\* C25: while run_parallel is under way a TargetResult that was appended
\* to the shared list no longer changes, a step that changes a
\* TargetResult is a step of that target's own scan and changes no other,
\* and the peers named in a target's in-flight collision findings come from
\* its own snapshot.
C25_ResultOwnedByItsWorker ==
    /\ [][mainPc = "parallel" =>
            \A i \in Targets :
                /\ InSeq(i, results) => result'[i] = result[i]
                /\ result'[i] # result[i] =>
                       /\ wpc[i] \notin {"queued", "snapshot", "returned", "append", "done", "raised"}
                       /\ \A j \in Targets \ {i} : result'[j] = result[j]]_vars
    /\ [](\A i \in Targets : \A k \in 1..Len(result[i].findings) :
              result[i].findings[k].check = "tool_shadowing" =>
                  \A p \in 1..Len(result[i].findings[k].peers) :
                      InSeq(result[i].findings[k].peers[p], snapshot[i]))

\* a scan in flight has found a collision with an appended peer, whose
\* result is as its worker left it
C25_Witness ==
    /\ mainPc = "parallel"
    /\ \E i \in Targets, j \in Targets :
           /\ wpc[i] = "done"
           /\ wpc[j] = "close"
           /\ \E k \in 1..Len(result[j].findings) :
                  /\ result[j].findings[k].check = "tool_shadowing"
                  /\ result[j].findings[k].peers = <<i>>
           /\ FindingsOf(result[i], "tool_shadowing") # <<>>
           /\ \A k \in 1..Len(result[i].findings) : result[i].findings[k].peers = <<>>

\* the checks of target i are running, or main is in its passes over the
\* results
ChecksRunning(i) ==
    wpc[i] \in {"chk_static", "chk_rug_pull", "chk_robustness", "chk_indirect", "chk_sse",
                "chk_correlative"}

\* C26: in every step, through enumeration, the checks, the cross pass and
\* the differential pass, the findings of a TargetResult before the step
\* are a prefix of its findings after it; the checks and both passes leave
\* its tools, resources and prompts as they are.
C26_FindingsAppendOnly ==
    [][\A i \in Targets :
          /\ IsPrefix(result[i].findings, result'[i].findings)
          /\ (ChecksRunning(i) \/ mainPc \in {"joined", "correlated"}) =>
                 /\ result'[i].tools = result[i].tools
                 /\ result'[i].resources = result[i].resources
                 /\ result'[i].prompts = result[i].prompts]_vars

\* a result that got findings from enumeration, a check, the cross pass
\* and the differential pass, in that order
C26_Witness ==
    /\ mainPc = "exited"
    /\ \E i \in Targets :
           LET f == result[i].findings
           IN  \E a \in 1..Len(f), b \in 1..Len(f), c \in 1..Len(f), d \in 1..Len(f) :
                   /\ a < b /\ b < c /\ c < d
                   /\ f[a].check = "auth"
                   /\ f[b].check = "tool_shadowing"
                   /\ f[c].check = "cross_shadowing"
                   /\ f[d].check = "differential"

\* scan_target has returned the TargetResult of target i
Returned(i) == wpc[i] \in {"returned", "append", "done"}
HighOf(r, check) ==
    \E k \in 1..Len(r.findings) : r.findings[k].check = check /\ r.findings[k].severity = "HIGH"

\* C27, first half: a TargetResult that scan_target returned has a HIGH
\* finding: 'transport' when no transport was found, else 'init' or 'auth'.
ReturnedResultHasHigh ==
    \A i \in Targets :
        Returned(i) =>
            IF result[i].transport = "none"
            THEN HighOf(result[i], "transport")
            ELSE HighOf(result[i], "init") \/ HighOf(result[i], "auth")

\* C27: every TargetResult returned by scan_target has at least one HIGH
\* finding ('transport', 'init' or 'auth'), and so, the url list being
\* non-empty, the process never exits with code 0.
C27_NeverExitsZero ==
    /\ ReturnedResultHasHigh
    /\ Len(urls) > 0 => exitCode # 0

\* no url has two results in the list that run_parallel builds
NoResultTwice ==
    \A j \in 1..Len(results), k \in 1..Len(results) : results[j] = results[k] => j = k

\* C28: the list run_parallel returns holds exactly one TargetResult per
\* input url, in any order: none is lost and none is there twice.
C28_OneResultPerUrl ==
    /\ NoResultTwice
    /\ RunParallelOver =>
           /\ Len(results) = Len(urls)
           /\ {results[k] : k \in 1..Len(results)} = Targets

\* a reply that is null or a JSON-RPC error object
Negative(reply) == reply.type \in {"null", "error"}

\* C30: check_rug_pull makes an "appeared" or "disappeared" finding only
\* when both tools/list calls returned a result, and when either reply is
\* null or a JSON-RPC error it appends no finding at all.
C30_NoRugPullOnNegativeReply ==
    RugPullOver =>
        /\ (Negative(listed[1]) \/ Negative(listed[2])) => result[1].findings = <<>>
        /\ (\E k \in 1..Len(RugPullFindings) :
                RugPullFindings[k].title \in {"appeared", "disappeared"}) => BothListed

\* main is past detect_cross_shadowing
CrossPassOver == crossRuns > 0
\* the in-flight 'Name collision with <peer>' findings of a TargetResult
Collisions(r) ==
    SelectSeq(r.findings, LAMBDA f : f.check = "tool_shadowing" /\ f.peers # <<>>)
\* the TargetResult has a cross_shadowing finding for a tool of that name,
\* in whatever case it is written
CrossFindingFor(r, n) ==
    \E k \in 1..Len(r.findings) :
        /\ r.findings[k].check = "cross_shadowing"
        /\ \E m \in r.findings[k].subject : m = n \/ (m = "Search" /\ n = "search")

\* C29: once detect_cross_shadowing has run, a target with an in-flight
\* 'Name collision with <peer>' finding for a tool name has a
\* cross_shadowing finding for that same tool.
C29_PostJoinPassCoversInFlight ==
    CrossPassOver =>
        \A i \in Targets :
            \A k \in 1..Len(Collisions(result[i])) :
                \A n \in Collisions(result[i])[k].subject : CrossFindingFor(result[i], n)

====
